---- MODULE Spec2Model ----
(***************************************************************************)
(* Verification model of claude-subagent-editor.                           *)
(*                                                                         *)
(*  - the agent-file parser / serializer (AgentParser, Python, given in   *)
(*    docs/plans/2026-01-13-phase1-core-infrastructure.md),                *)
(*  - the project scan route (scan_project, same document),                *)
(*  - the React front end (frontend/src/App.tsx: App and AgentEditor).     *)
(*                                                                         *)
(* Text is a sequence of tokens.  The characters the code inspects         *)
(* (whitespace, "-", ",", ":", "'", "[", "]") are tokens of their own; a   *)
(* run of other characters (a word such as "Read" or "opus") is one        *)
(* atomic token.  A word never contains one of the inspected characters,   *)
(* so strip / startswith / find / split act on token sequences exactly as  *)
(* the Python string methods act on the characters.                        *)
(***************************************************************************)
EXTENDS Integers, Sequences, FiniteSets, TLC

----------------------------------------------------------------------------
(* Python string primitives on token sequences                             *)

NL == "\n"
SP == " "

IsSpace(c) == c \in {SP, NL}

Range(s) == {s[i] : i \in 1..Len(s)}

Min(S) == CHOOSE x \in S : \A y \in S : x <= y
Max(S) == CHOOSE x \in S : \A y \in S : x >= y

\* The one element of a one-element set.  One({F(x) : x \in {e}}) is F(e) with
\* e evaluated once: the form used where a value is read many times.
One(S) == CHOOSE x \in S : TRUE

\* s[i:j] of Python, 0-based, half-open, for 0 <= i
Slice(s, i, j) == SubSeq(s, i + 1, IF j > Len(s) THEN Len(s) ELSE j)

\* s[i:]
SliceFrom(s, i) == SubSeq(s, i + 1, Len(s))

\* The positions of s whose token is not in the set `drop`.
Kept(s, drop) == {i \in 1..Len(s) : s[i] \notin drop}

\* str.lstrip(), str.rstrip(), str.strip(): whitespace off the ends
lstrip(s) == IF Kept(s, {SP, NL}) = {} THEN <<>> ELSE SubSeq(s, Min(Kept(s, {SP, NL})), Len(s))
rstrip(s) == IF Kept(s, {SP, NL}) = {} THEN <<>> ELSE SubSeq(s, 1, Max(Kept(s, {SP, NL})))
strip(s) ==
    IF Kept(s, {SP, NL}) = {} THEN <<>>
    ELSE SubSeq(s, Min(Kept(s, {SP, NL})), Max(Kept(s, {SP, NL})))

\* str.lstrip("\n"), str.lstrip(" ")
lstrip_nl(s) == IF Kept(s, {NL}) = {} THEN <<>> ELSE SubSeq(s, Min(Kept(s, {NL})), Len(s))
lstrip_sp(s) == IF Kept(s, {SP}) = {} THEN <<>> ELSE SubSeq(s, Min(Kept(s, {SP})), Len(s))

\* str.startswith(p)
startswith(s, p) == Len(s) >= Len(p) /\ SubSeq(s, 1, Len(p)) = p

\* The 0-based indexes at which p occurs in s.
Occurrences(s, p) == {i \in 0..(Len(s) - Len(p)) : SubSeq(s, i + 1, i + Len(p)) = p}

\* str.find(p): lowest 0-based index of p in s, -1 when there is none
find(s, p) == IF Occurrences(s, p) = {} THEN -1 ELSE Min(Occurrences(s, p))

\* The k-th smallest element of a set of numbers.
Kth(P, k) == CHOOSE p \in P : Cardinality({q \in P : q < p}) = k - 1

\* str.split(sep) for a one-token separator: the segments between separators
SepAt(s, sep) == {i \in 1..Len(s) : s[i] = sep}
split(s, sep) ==
    One({[k \in 1..(Cardinality(P) + 1) |->
             SubSeq(s,
                    IF k = 1 THEN 1 ELSE Kth(P, k - 1) + 1,
                    IF k = Cardinality(P) + 1 THEN Len(s) ELSE Kth(P, k) - 1)]
         : P \in {SepAt(s, sep)}})

\* "".join(texts)
RECURSIVE Concat(_)
Concat(ss) == IF ss = <<>> THEN <<>> ELSE Head(ss) \o Concat(Tail(ss))

\* sep.join(texts)
RECURSIVE Join(_, _)
Join(ss, sep) ==
    IF ss = <<>> THEN <<>>
    ELSE IF Len(ss) = 1 THEN ss[1]
    ELSE ss[1] \o sep \o Join(Tail(ss), sep)

----------------------------------------------------------------------------
(* AgentParser._split_frontmatter                                          *)

FRONTMATTER_DELIMITER == <<"-", "-", "-">>

\* Results of the Python functions: a value, or the exception raised.
Ok(v) == [ok |-> TRUE, val |-> v]
Raise(exc, msg) == [ok |-> FALSE, exc |-> exc, msg |-> msg]

\* `body` after the two lines that follow the slicing.
SplitBody(body) ==
    IF startswith(body, FRONTMATTER_DELIMITER) THEN strip(SliceFrom(body, 3))
    ELSE IF startswith(body, <<NL>>) THEN lstrip_nl(body)
    ELSE body

\* _split_frontmatter without the `if end_index == -1` test.
SplitRestUnchecked(rest, end_index) ==
    Ok([frontmatter |-> strip(Slice(rest, 0, IF end_index = -1 THEN 0 ELSE end_index)), body |-> <<>>])

\* From `rest = content[len(DELIMITER):]` on.
SplitRest(rest, end_index) ==
    IF end_index = -1
    THEN Raise("ValueError", <<"Missing closing YAML frontmatter delimiter">>)
    ELSE Ok([frontmatter |-> strip(Slice(rest, 0, end_index)),
             body |-> One({SplitBody(body) : body \in
                        {strip(SliceFrom(rest, end_index + Len(FRONTMATTER_DELIMITER) + 1))}})])

\* _split_frontmatter without the `if not content.startswith` test.
SplitStrippedUnchecked(content) ==
    One({SplitRest(rest, find(rest, <<NL>> \o FRONTMATTER_DELIMITER)) :
            rest \in {SliceFrom(content, Len(FRONTMATTER_DELIMITER))}})

\* From `content = content.strip()` on.
SplitStripped(content) ==
    IF ~startswith(content, FRONTMATTER_DELIMITER)
    THEN Raise("ValueError", <<"File must start with YAML frontmatter delimiter">>)
    ELSE One({SplitRest(rest, find(rest, <<NL>> \o FRONTMATTER_DELIMITER)) :
                 rest \in {SliceFrom(content, Len(FRONTMATTER_DELIMITER))}})

_split_frontmatter(content) == One({SplitStripped(c) : c \in {strip(content)}})

----------------------------------------------------------------------------
(* Python values, as the YAML loader produces them.  Every kind has its   *)
(* own payload field, so that values of different kinds compare unequal.  *)

PyNone == [t |-> "none"]
PyStr(s) == [t |-> "str", s |-> s]
PyInt(w) == [t |-> "int", n |-> w]
PyList(l) == [t |-> "list", l |-> l]
PyMap(m) == [t |-> "map", m |-> m]
PyError == [t |-> "error"]

\* The characters the code and the YAML grammar inspect; any other token is a word.
Special == {SP, NL, "-", ":", ",", "'", "[", "]", "*"}
IsWord(tok) == tok \notin Special

\* Plain scalars YAML resolves to null and to int.
NullWords == {"null", "~"}
IntWords == {"0", "7"}

\* bool(value) of Python
Truthy(v) ==
    CASE v.t = "none" -> FALSE
      [] v.t = "str" -> v.s # <<>>
      [] v.t = "int" -> v.n # "0"
      [] v.t = "list" -> v.l # <<>>
      [] v.t = "map" -> v.m # <<>>
      [] OTHER -> FALSE

\* repr(value) for the values a list can hold, and str(value)
py_repr(v) ==
    CASE v.t = "str" -> <<"'">> \o v.s \o <<"'">>
      [] v.t = "int" -> <<v.n>>
      [] OTHER -> <<"None">>

py_str(v) ==
    CASE v.t = "str" -> v.s
      [] v.t = "int" -> <<v.n>>
      [] v.t = "list" ->
            <<"[">> \o Join([i \in 1..Len(v.l) |-> py_repr(v.l[i])], <<",", SP>>) \o <<"]">>
      [] v.t = "map" -> <<"{", "}">>
      [] OTHER -> <<"None">>

----------------------------------------------------------------------------
(* ruamel.yaml load and dump, for the block-style documents agent files   *)
(* hold: `key: scalar`, `key:` followed by `- item` lines, `key: [a, b]`.  *)

IsBlank(line) == Kept(line, {SP}) = {}

\* `key:` or `key: rest` at column 0
IsEntry(line) ==
    /\ Len(line) >= 2
    /\ IsWord(line[1])
    /\ line[2] = ":"
    /\ (Len(line) = 2 \/ line[3] = SP)

\* `- item` (a sequence entry), at any indentation
IsItemText(l) == l # <<>> /\ l[1] = "-" /\ (Len(l) = 1 \/ l[2] = SP)
IsItem(line) == \E l \in {lstrip_sp(line)} : IsItemText(l)

ItemText(line) == SliceFrom(lstrip_sp(line), 1)

\* A scalar that is neither quoted nor a flow sequence.
yaml_plain(t) ==
    IF t = <<>> \/ (Len(t) = 1 /\ t[1] \in NullWords) THEN PyNone
    ELSE IF Len(t) = 1 /\ t[1] \in IntWords THEN PyInt(t[1])
    ELSE IF t[1] \in {"*", "[", "]", "'", ","} THEN PyError
    ELSE IF t[1] = "-" /\ (Len(t) = 1 \/ t[2] = SP) THEN PyError
    ELSE IF find(t, <<":", SP>>) # -1 \/ t[Len(t)] = ":" THEN PyError
    ELSE PyStr(t)

\* A single-quoted scalar: everything between the quotes, verbatim.
yaml_quoted(t) ==
    IF Len(t) >= 2 /\ t[Len(t)] = "'" /\ "'" \notin Range(SubSeq(t, 2, Len(t) - 1))
    THEN PyStr(SubSeq(t, 2, Len(t) - 1))
    ELSE PyError

FlowItem(t) ==
    IF t # <<>> /\ t[1] = "'" THEN yaml_quoted(t)
    ELSE IF t = <<>> \/ "[" \in Range(t) \/ "]" \in Range(t) THEN PyError
    ELSE yaml_plain(t)

yaml_flow_item(t0) == One({FlowItem(t) : t \in {strip(t0)}})

\* A list of values, or the error one of them is.
ListOrError(items) ==
    IF \E i \in 1..Len(items) : items[i] = PyError THEN PyError ELSE PyList(items)

FlowItems(parts) ==
    One({ListOrError(items) :
            items \in {[i \in 1..Len(parts) |-> yaml_flow_item(parts[i])]}})

FlowInner(inner) ==
    IF inner = <<>> THEN PyList(<<>>)
    ELSE One({FlowItems(parts) : parts \in {split(inner, ",")}})

\* `[a, b]`
yaml_flow_seq(t) ==
    IF Len(t) < 2 \/ t[Len(t)] # "]" THEN PyError
    ELSE One({FlowInner(inner) : inner \in {strip(SubSeq(t, 2, Len(t) - 1))}})

Scalar(t) ==
    IF t # <<>> /\ t[1] = "'" THEN yaml_quoted(t)
    ELSE IF t # <<>> /\ t[1] = "[" THEN yaml_flow_seq(t)
    ELSE yaml_plain(t)

\* The value a piece of one line denotes.
yaml_scalar(t0) == One({Scalar(t) : t \in {strip(t0)}})

\* The value of the entry on line i, whose `- item` lines end before line stop.
EntryValue(lines, i, stop, rest) ==
    IF rest # <<>> THEN (IF stop = i + 1 THEN yaml_scalar(rest) ELSE PyError)
    ELSE IF stop = i + 1 THEN PyNone
    ELSE IF \E j \in (i + 1)..(stop - 1) : ~IsItem(lines[j]) THEN PyError
    ELSE One({ListOrError(items) :
                 items \in {[k \in 1..(stop - i - 1) |-> yaml_scalar(ItemText(lines[i + k]))]}})

\* The key and the value of the entry on line i; entries are the entry lines.
EntryPair(lines, entries, i) ==
    <<lines[i][1],
      EntryValue(lines, i, Min({j \in entries : j > i} \cup {Len(lines) + 1}),
                 strip(SliceFrom(lines[i], 2)))>>

\* A mapping of the pairs, or PyError for a bad value or a key that repeats.
MapOrError(pairs) ==
    IF \/ \E k \in 1..Len(pairs) : pairs[k][2] = PyError
       \/ \E k, l \in 1..Len(pairs) : k # l /\ pairs[k][1] = pairs[l][1]
    THEN PyError
    ELSE PyMap(pairs)

BlockMap(lines, entries) ==
    One({MapOrError(pairs) :
            pairs \in {[k \in 1..Cardinality(entries) |->
                           EntryPair(lines, entries, Kth(entries, k))]}})

\* A block mapping whose first line is an entry.
yaml_block_map(lines) ==
    One({BlockMap(lines, entries) :
            entries \in {{i \in 1..Len(lines) : IsEntry(lines[i])}}})

\* A block sequence whose first line is an item.
yaml_block_seq(lines) ==
    IF \E k \in 1..Len(lines) : ~IsItem(lines[k]) THEN PyError
    ELSE One({ListOrError(items) :
                 items \in {[k \in 1..Len(lines) |-> yaml_scalar(ItemText(lines[k]))]}})

LoadLines(lines) ==
    IF lines = <<>> THEN PyNone
    ELSE IF IsEntry(lines[1]) THEN yaml_block_map(lines)
    ELSE IF IsItem(lines[1]) THEN yaml_block_seq(lines)
    ELSE IF Len(lines) = 1 THEN yaml_scalar(lines[1])
    ELSE PyError

\* YAML().load(text): the document's value, or PyError for a YAMLError.
yaml_load(text) ==
    One({LoadLines(lines) :
            lines \in {SelectSeq(split(text, NL), LAMBDA l : ~IsBlank(l))}})

\* A string is written plain when the plain scalar reads back as that string,
\* and single-quoted otherwise.
yaml_emit_scalar(s) ==
    IF s # <<>> /\ strip(s) = s /\ yaml_plain(s) = PyStr(s) /\ s[1] # "-"
       /\ Range(s) \cap {",", "[", "]", "'", NL} = {}
    THEN s
    ELSE <<"'">> \o s \o <<"'">>

yaml_emit_value(key, v) ==
    IF v.t = "list"
    THEN IF v.l = <<>> THEN <<key, ":", SP, "[", "]", NL>>
         ELSE <<key, ":", NL>>
              \o Concat([i \in 1..Len(v.l) |->
                            <<"-", SP>> \o yaml_emit_scalar(py_str(v.l[i])) \o <<NL>>])
    ELSE <<key, ":", SP>> \o yaml_emit_scalar(py_str(v)) \o <<NL>>

\* YAML().dump(frontmatter, stream): one entry per key, in insertion order.
yaml_dump(m) == Concat([i \in 1..Len(m) |-> yaml_emit_value(m[i][1], m[i][2])])

----------------------------------------------------------------------------
(* AgentParser: _parse_yaml, _get_required, _normalize_list,              *)
(* parse_content, serialize                                                *)

\* dict.get(key, default); only a mapping has the method.
dict_get(data, key, default) ==
    IF \E i \in 1..Len(data.m) : data.m[i][1] = key
    THEN data.m[CHOOSE i \in 1..Len(data.m) : data.m[i][1] = key][2]
    ELSE default

\* `result if result else {}`; any exception of the loader becomes a ValueError.
ParseYamlResult(result) ==
    IF result = PyError THEN Raise("ValueError", <<"Invalid YAML frontmatter">>)
    ELSE Ok(IF Truthy(result) THEN result ELSE PyMap(<<>>))

_parse_yaml(yaml_str) == One({ParseYamlResult(result) : result \in {yaml_load(yaml_str)}})

RequiredValue(value, key) ==
    IF value = PyNone THEN Raise("ValueError", <<"Missing required field", key>>)
    ELSE Ok(py_str(value))

_get_required(data, key) ==
    IF data.t # "map" THEN Raise("AttributeError", <<"object has no attribute get">>)
    ELSE One({RequiredValue(value, key) : value \in {dict_get(data, key, PyNone)}})

\* The comprehension without `.strip()`: the pieces as split leaves them.
SplitItemsUnstripped(parts) == SelectSeq(parts, LAMBDA item : item # <<>>)

\* [item.strip() for item in value.split(",") if item.strip()]
SplitItems(parts) ==
    SelectSeq([i \in 1..Len(parts) |-> strip(parts[i])], LAMBDA item : item # <<>>)

_normalize_list(value) ==
    IF value = PyNone THEN <<>>
    ELSE IF value.t = "list" THEN [i \in 1..Len(value.l) |-> strip(py_str(value.l[i]))]
    ELSE IF value.t = "str" THEN One({SplitItems(parts) : parts \in {split(value.s, ",")}})
    ELSE <<py_str(value)>>

ParsedAgent(filename, name, description, model, tools, skills, nickname, body) ==
    [filename |-> filename, name |-> name, description |-> description,
     model |-> model, tools |-> tools, skills |-> skills, nickname |-> nickname,
     body |-> body]

\* The keyword arguments of ParsedAgent(...) are evaluated in order; the first
\* exception ends the call.
BuildAgent(data, body, filename, name, description, model) ==
    IF ~name.ok THEN name
    ELSE IF ~description.ok THEN description
    ELSE IF ~model.ok THEN model
    ELSE Ok(ParsedAgent(filename, name.val, description.val, model.val,
                        _normalize_list(dict_get(data, "tools", PyList(<<>>))),
                        _normalize_list(dict_get(data, "skills", PyList(<<>>))),
                        dict_get(data, "nickname", PyNone),
                        strip(body)))

ParseData(py, body, filename) ==
    IF ~py.ok THEN py
    ELSE One({BuildAgent(data, body, filename,
                         _get_required(data, "name"),
                         _get_required(data, "description"),
                         _get_required(data, "model")) : data \in {py.val}})

ParseSplit(sf, filename) ==
    IF ~sf.ok THEN sf
    ELSE One({ParseData(py, sf.val.body, filename) :
                 py \in {_parse_yaml(sf.val.frontmatter)}})

parse_content(content, filename) ==
    One({ParseSplit(sf, filename) : sf \in {_split_frontmatter(content)}})

StrList(l) == PyList([i \in 1..Len(l) |-> PyStr(l[i])])

\* The frontmatter dict of serialize, as the pairs in insertion order.
Frontmatter(agent) ==
    <<  <<"name", PyStr(agent.name)>>,
        <<"description", PyStr(agent.description)>>,
        <<"model", PyStr(agent.model)>>  >>
    \o (IF agent.tools # <<>> THEN << <<"tools", StrList(agent.tools)>> >> ELSE <<>>)
    \o (IF agent.skills # <<>> THEN << <<"skills", StrList(agent.skills)>> >> ELSE <<>>)
    \o (IF Truthy(agent.nickname) THEN << <<"nickname", agent.nickname>> >> ELSE <<>>)

serialize(agent) ==
    One({FRONTMATTER_DELIMITER \o <<NL>> \o yaml_content
         \o FRONTMATTER_DELIMITER \o <<NL, NL>> \o agent.body \o <<NL>> :
            yaml_content \in {yaml_dump(Frontmatter(agent))}})

----------------------------------------------------------------------------
(* Agent files and records the checks run on                               *)

NULL == [t |-> "null"]

\* Bounds of the inputs.
MaxBody == 3
MaxTools == 2

\* All sequences over S of length at most n.
SeqsUpTo(S, n) == UNION {[1..k -> S] : k \in 0..n}

BodyAlphabet == {"-", NL, SP, "x"}
Bodies == SeqsUpTo(BodyAlphabet, MaxBody)

ToolNames == {<<"Read">>, <<"Write">>, <<"7">>}

\* The records of the round trip: what the data model calls a valid agent.
ValidAgents ==
    {ParsedAgent("architect.md", name, <<"System", SP, "design">>, model,
                 tools, skills, nickname, body) :
        name \in {<<"architect">>, <<"7">>},
        model \in {<<"opus">>, <<"haiku">>},
        tools \in SeqsUpTo({<<"Read">>, <<"mcp", "_", "_", "s", "_", "_", "a">>}, MaxTools),
        skills \in {<<>>, << <<"tdd">> >>},
        nickname \in {PyNone, PyStr(<<"Ada">>)},
        body \in Bodies}

\* Records whose tools are the wildcard `*`.
WildcardAgents ==
    {ParsedAgent("architect.md", <<"architect">>, <<"System", SP, "design">>, <<"opus">>,
                 << <<"*">> >>, skills, PyNone, <<"x">>) :
        skills \in {<<>>, << <<"tdd">> >>}}

\* One frontmatter line, as a person writes it: `key: value`, `key:`, nothing.
FieldLine(key, how, value) ==
    CASE how = "absent" -> <<>>
      [] how = "empty" -> <<key, ":", NL>>
      [] how = "null" -> <<key, ":", SP, "null", NL>>
      [] OTHER -> <<key, ":", SP>> \o value \o <<NL>>

\* The encodings of a list field in a file.
ListEncodings == {"absent", "empty", "null", "string", "block", "flow"}
Separators == {<<",">>, <<",", SP>>, <<SP, ",", SP>>}

ListLines(key, enc, names, sep) ==
    CASE enc = "absent" -> <<>>
      [] enc = "empty" -> <<key, ":", NL>>
      [] enc = "null" -> <<key, ":", SP, "null", NL>>
      [] enc = "string" -> <<key, ":", SP>> \o Join(names, sep) \o <<NL>>
      [] enc = "block" ->
            <<key, ":", NL>>
            \o Concat([i \in 1..Len(names) |-> <<SP, SP, "-", SP>> \o names[i] \o <<NL>>])
      [] OTHER -> <<key, ":", SP, "[">> \o Join(names, sep) \o <<"]", NL>>

FileText(frontmatter, body) ==
    FRONTMATTER_DELIMITER \o <<NL>> \o frontmatter
    \o FRONTMATTER_DELIMITER \o <<NL, NL>> \o body \o <<NL>>

Hows == {"absent", "empty", "null", "value"}

\* A file whose frontmatter is a mapping: what is written for each field.
MappingFiles ==
    [name : Hows, description : Hows, model : Hows, modelName : {<<"opus">>, <<"gpt">>},
     tools : {"absent", "string", "block"}]

MappingText(f) ==
    FileText(FieldLine("name", f.name, <<"worker">>)
             \o FieldLine("description", f.description, <<"Small", SP, "tasks">>)
             \o FieldLine("model", f.model, f.modelName)
             \o ListLines("tools", f.tools, << <<"Read">>, <<"Bash">> >>, <<",", SP>>),
             <<"Body", ".">>)

\* Files that are no agent file, each for its own reason.
OtherTexts ==
    [scalar |-> FileText(<<"hello", NL>>, <<"Body">>),
     sequence |-> FileText(<<"-", SP, "a", NL, "-", SP, "b", NL>>, <<"Body">>),
     nofrontmatter |-> FileText(<<>>, <<"Body">>),
     badyaml |-> FileText(<<"name", ":", SP, "a", ":", SP, "b", NL>>, <<"Body">>),
     nostart |-> <<"name", ":", SP, "a", NL>> \o FRONTMATTER_DELIMITER \o <<NL, "Body", NL>>,
     noend |-> FRONTMATTER_DELIMITER \o <<NL, "name", ":", SP, "a", NL, NL, "Body", NL>>]

\* Files of any shape: blank lead, a first line, up to MaxLines further
\* lines, and a trailing newline or none.
MaxLines == 2

RawLeads == {<<>>, <<NL>>, <<SP, NL, SP>>}
RawOpenings == {<<>>, FRONTMATTER_DELIMITER, <<"-", "-">>, <<"a">>}
RawLineSet ==
    {<<"a">>, FRONTMATTER_DELIMITER, <<"-", "-", "-", "-">>, <<SP, "-", "-", "-">>,
     <<"a", "-", "-", "-">>, <<"name", ":", SP, "a">>}
RawTrails == {<<>>, <<NL>>}

RECURSIVE RawLines(_)
RawLines(ls) == IF ls = <<>> THEN <<>> ELSE <<NL>> \o ls[1] \o RawLines(Tail(ls))

RawText(raw) == raw.lead \o raw.opening \o RawLines(raw.lines) \o raw.trail

RawFiles ==
    [lead : RawLeads, opening : RawOpenings, lines : SeqsUpTo(RawLineSet, MaxLines),
     trail : RawTrails]

----------------------------------------------------------------------------
(* State                                                                   *)

VARIABLES
    \* the parser under test: what is given, the text in between, what comes out
    input, text, output, pc,
    \* the back end: the file system, the module global of routes.py, and the
    \* locals of the running scan_project call
    fs, _current_project, scan,
    \* the front end: the state of App and AgentEditor, the PUT requests in
    \* flight and the number sent
    ui, requests, putCount,
    \* history: the number of edit events and Save clicks so far, and the
    \* handler the last edit event or close of the session called, with its
    \* argument and whether the argument was in the list (for a close: whether
    \* edits were dropped)
    events, lastOp

parserVars == <<input, text, output, pc>>
scanVars == <<fs, _current_project, scan>>
editorVars == <<ui, requests, putCount, events, lastOp>>
vars == <<input, text, output, pc, fs, _current_project, scan,
          ui, requests, putCount, events, lastOp>>

\* The parts of the state a specification does not use stay as they are here.
ParserIdle == input = NULL /\ text = <<>> /\ output = NULL /\ pc = "idle"
ScanIdle == fs = NULL /\ _current_project = NULL /\ scan = NULL
EditorIdle == ui = NULL /\ requests = {} /\ putCount = 0 /\ events = 0 /\ lastOp = NULL

----------------------------------------------------------------------------
(* The parser, run on records, on files and on list fields                 *)

ParserInputs ==
    {[kind |-> "record", agent |-> a] : a \in ValidAgents \cup WildcardAgents}
    \cup {[kind |-> "file", doc |-> "mapping", fields |-> f] : f \in MappingFiles}
    \cup {[kind |-> "file", doc |-> d] : d \in DOMAIN OtherTexts}
    \cup {[kind |-> "raw", raw |-> r] : r \in RawFiles}
    \cup {[kind |-> "list", names |-> n, sep |-> sp] :
             n \in SeqsUpTo(ToolNames, MaxTools), sp \in Separators}

ParserInit ==
    /\ input \in ParserInputs
    /\ text = (IF input.kind = "file"
               THEN IF input.doc = "mapping" THEN MappingText(input.fields)
                    ELSE OtherTexts[input.doc]
               ELSE IF input.kind = "raw" THEN RawText(input.raw)
               ELSE <<>>)
    /\ output = NULL
    /\ pc = (IF input.kind = "record" THEN "record"
             ELSE IF input.kind \in {"file", "raw"} THEN "file" ELSE "list")
    /\ ScanIdle
    /\ EditorIdle

\* AgentParser.serialize(agent)
Serialize ==
    /\ pc = "record"
    /\ text' = serialize(input.agent)
    /\ pc' = "file"
    /\ UNCHANGED <<input, output, scanVars, editorVars>>

\* AgentParser.parse_content(content, filename)
ParseContent ==
    /\ pc = "file"
    /\ output' = parse_content(text, "architect.md")
    /\ pc' = "parsed"
    /\ UNCHANGED <<input, text, scanVars, editorVars>>

\* AgentParser._split_frontmatter(content), by itself, on a file as a person
\* may write it.
SplitFrontmatter ==
    /\ pc = "file"
    /\ input.kind = "raw"
    /\ output' = _split_frontmatter(text)
    /\ pc' = "split"
    /\ UNCHANGED <<input, text, scanVars, editorVars>>

\* The value `tools` gets for one encoding of the list in the frontmatter.
ToolsOf(enc, names, sep) ==
    LET data == _parse_yaml(strip(FieldLine("name", "value", <<"worker">>)
                                  \o ListLines("tools", enc, names, sep)))
    IN  _normalize_list(dict_get(data.val, "tools", PyList(<<>>)))

\* parse_content's `tools=self._normalize_list(data.get("tools", []))`, for
\* every encoding of the same list.
NormalizeList ==
    /\ pc = "list"
    /\ output' = [enc \in ListEncodings |-> ToolsOf(enc, input.names, input.sep)]
    /\ pc' = "normalized"
    /\ UNCHANGED <<input, text, scanVars, editorVars>>

ParserNext == Serialize \/ ParseContent \/ SplitFrontmatter \/ NormalizeList

SpecParser == ParserInit /\ [][ParserNext]_vars

----------------------------------------------------------------------------
(* Properties of the parser                                                *)

\* Equality of two records up to whitespace around the text fields.
StripAll(l) == [i \in 1..Len(l) |-> strip(l[i])]
SameNickname(a, b) ==
    IF a.t = "str" /\ b.t = "str" THEN strip(a.s) = strip(b.s) ELSE a = b
SameRecord(a, b) ==
    /\ a.filename = b.filename
    /\ strip(a.name) = strip(b.name)
    /\ strip(a.description) = strip(b.description)
    /\ strip(a.model) = strip(b.model)
    /\ StripAll(a.tools) = StripAll(b.tools)
    /\ StripAll(a.skills) = StripAll(b.skills)
    /\ SameNickname(a.nickname, b.nickname)
    /\ strip(a.body) = strip(b.body)

\* C2: parse_content(serialize(r)) succeeds and yields a record equal to r in
\* every field, whitespace around a field aside, for every valid record r.
C2_RoundTrip ==
    (pc = "parsed" /\ input.kind = "record")
        => (output.ok /\ SameRecord(output.val, input.agent))

\* C9: the comma-separated string, the flow sequence and the block sequence of
\* the same tool names normalize to the same set, the set of the names; an
\* absent, empty or null field normalizes to the empty list.
C9_NormalizerEquivalence ==
    pc = "normalized" =>
        /\ Range(output["string"]) = Range(output["flow"])
        /\ Range(output["string"]) = Range(output["block"])
        /\ Range(output["string"]) = Range(input.names)
        /\ output["absent"] = <<>>
        /\ output["empty"] = <<>>
        /\ output["null"] = <<>>

\* C9 witness: two names written with ", " between them were normalized, and
\* the string encoding gave the two names.
C9_Witness ==
    /\ pc = "normalized"
    /\ input.names = << <<"Read">>, <<"Write">> >>
    /\ input.sep = <<",", SP>>
    /\ output["string"] = << <<"Read">>, <<"Write">> >>
    /\ output["flow"] = << <<"Read">>, <<"Write">> >>

RequiredFields == <<"name", "description", "model">>
Missing(f, k) == f[RequiredFields[k]] \in {"absent", "empty", "null"}
MissingField(key) == Raise("ValueError", <<"Missing required field", key>>)

\* Frontmatter that is no mapping holds none of the required fields.
MissingIn(k) ==
    IF input.doc = "mapping" THEN Missing(input.fields, k)
    ELSE input.doc \in {"scalar", "sequence"}

\* C10: frontmatter in which a required field (name, description, model) is
\* absent or null makes parsing fail with the MissingField error naming that
\* field, and no agent record is produced. Stated for the first such field,
\* the one parse_content asks for first.
C10_MissingEachField ==
    (pc = "parsed" /\ input.kind = "file") =>
        \A k \in 1..3 :
            (MissingIn(k) /\ \A j \in 1..(k - 1) : ~MissingIn(j))
                => output = MissingField(RequiredFields[k])

\* What parse_content does on a frontmatter mapping: the error names the
\* first required field that is absent or null, in the order name,
\* description, model; a mapping with all three parses.
MissingFirstField ==
    (pc = "parsed" /\ input.kind = "file" /\ input.doc = "mapping") =>
        /\ \A k \in 1..3 :
              (Missing(input.fields, k) /\ \A j \in 1..(k - 1) : ~Missing(input.fields, j))
                  => output = MissingField(RequiredFields[k])
        /\ (\A k \in 1..3 : ~Missing(input.fields, k)) => output.ok

\* A mapping whose description is null and whose model is absent: the error
\* names description.
MissingFirstFieldReached ==
    /\ pc = "parsed"
    /\ input.kind = "file"
    /\ input.doc = "mapping"
    /\ input.fields.name = "value"
    /\ input.fields.description = "null"
    /\ input.fields.model = "absent"
    /\ output = MissingField("description")

\* The two errors of _split_frontmatter (MalformedFrontmatter).
MalformedStart == Raise("ValueError", <<"File must start with YAML frontmatter delimiter">>)
MalformedEnd == Raise("ValueError", <<"Missing closing YAML frontmatter delimiter">>)

\* The position of the first token of c that is no whitespace, 0 if none.
FirstInk(c) ==
    IF \A i \in 1..Len(c) : IsSpace(c[i]) THEN 0
    ELSE Min({i \in 1..Len(c) : ~IsSpace(c[i])})

\* c has the three dashes at position i.
DashesAt(c, i) == i >= 1 /\ i + 2 <= Len(c) /\ \A j \in i..(i + 2) : c[j] = "-"

\* After its leading whitespace c begins with `---`.
BeginsWithDelimiter(c) == FirstInk(c) > 0 /\ DashesAt(c, FirstInk(c))

\* Behind the opening `---` some line of c begins with `---`.
HasClosingDelimiter(c) ==
    \E k \in (FirstInk(c) + 3)..Len(c) : c[k] = NL /\ DashesAt(c, k + 1)

\* C11: content that, after trimming leading and trailing whitespace, does
\* not begin with the delimiter `---` fails with the malformed-start error
\* of _split_frontmatter, and no record is produced.
C11_MalformedStart ==
    (pc = "parsed" /\ ~BeginsWithDelimiter(text)) => output = MalformedStart

\* C11 witness: a file whose first line is `--` and whose second line is
\* `---` has been parsed and rejected.
C11_Witness ==
    /\ pc = "parsed"
    /\ input.kind = "raw"
    /\ input.raw.opening = <<"-", "-">>
    /\ Len(input.raw.lines) >= 1
    /\ input.raw.lines[1] = FRONTMATTER_DELIMITER
    /\ output = MalformedStart

StrippedLines(content) == split(strip(content), NL)

\* The lines behind the first that consist solely of `---`, and those that
\* begin with it.
SoleDelimiterLines(lines) == {k \in 2..Len(lines) : lines[k] = FRONTMATTER_DELIMITER}
DelimiterLedLines(lines) == {k \in 2..Len(lines) : startswith(lines[k], FRONTMATTER_DELIMITER)}

\* The split at line k: the lines between for the frontmatter, the lines
\* behind for the body, both trimmed as the splitter trims them.
SplitAtLine(lines, k) ==
    Ok([frontmatter |-> strip(Join(SubSeq(lines, 2, k - 1), <<NL>>)),
        body |-> SplitBody(strip(Join(SubSeq(lines, k + 1, Len(lines)), <<NL>>)))])

\* The split with the first of the lines `among` as the closing delimiter;
\* without such a line there is no closing delimiter.
SplitAtFirst(lines, among) ==
    IF among = {} THEN MalformedEnd ELSE SplitAtLine(lines, Min(among))

\* A file whose first line is the opening delimiter has been split.
SplitRan == pc = "split" /\ StrippedLines(text)[1] = FRONTMATTER_DELIMITER

\* C24: the closing delimiter is the next line behind the opening one that
\* consists solely of `---`; the frontmatter is the lines between the two,
\* the body what follows the closing line; a line that only begins with
\* `---` is no delimiter.
C24_SoleDelimiterLine ==
    SplitRan =>
        output = SplitAtFirst(StrippedLines(text), SoleDelimiterLines(StrippedLines(text)))

\* What holds of the splitter: in a file in which every line that begins with
\* `---` consists solely of it, the split is the one described.
SplitsAtDelimiterLedLine ==
    (SplitRan /\ DelimiterLedLines(StrippedLines(text)) = SoleDelimiterLines(StrippedLines(text))) =>
        output = SplitAtFirst(StrippedLines(text), SoleDelimiterLines(StrippedLines(text)))

SplitsAtDelimiterLedLineReached ==
    /\ pc = "split"
    /\ input.raw.opening = FRONTMATTER_DELIMITER
    /\ input.raw.lines = << <<"name", ":", SP, "a">>, FRONTMATTER_DELIMITER >>
    /\ output = Ok([frontmatter |-> <<"name", ":", SP, "a">>, body |-> <<>>])

\* The keys of the frontmatter of a serialized file, in the order of their
\* lines: a key line is `key:` or `key: value`, an item line starts with `-`.
FileLines(content) == split(content, NL)
ClosingLine(lines) == Min({k \in 2..Len(lines) : lines[k] = FRONTMATTER_DELIMITER})
FrontmatterLines(lines) == SubSeq(lines, 2, ClosingLine(lines) - 1)
IsKeyLine(line) == Len(line) >= 2 /\ line[2] = ":" /\ line[1] \notin {"-", SP}
EmittedKeys(content) ==
    One({[i \in 1..Len(keyLines) |-> keyLines[i][1]] :
            keyLines \in {SelectSeq(FrontmatterLines(FileLines(content)), IsKeyLine)}})

\* The keys a record is to be written with: the required ones, then each
\* optional one that has content.
KeysWithContent(agent) ==
    <<"name", "description", "model">>
    \o (IF agent.tools # <<>> THEN <<"tools">> ELSE <<>>)
    \o (IF agent.skills # <<>> THEN <<"skills">> ELSE <<>>)
    \o (IF agent.nickname \notin {PyNone, PyStr(<<>>)} THEN <<"nickname">> ELSE <<>>)

\* What serialize does with the fields it knows: name, description and model
\* come first, in that order; tools, skills and nickname follow, each only
\* when it has content.
SerializerFieldsByContent ==
    (input.kind = "record" /\ pc \in {"file", "parsed"}) =>
        EmittedKeys(text) = KeysWithContent(input.agent)

\* A record with a nickname and no tools has been written.
SerializerFieldsReached ==
    /\ input.kind = "record" /\ pc = "file"
    /\ input.agent.tools = <<>>
    /\ input.agent.nickname = PyStr(<<"Ada">>)
    /\ EmittedKeys(text) = <<"name", "description", "model", "nickname">>

\* C19: the serializer writes name, description and model in that order, then
\* each optional field only when it has content, and `tools` as the scalar
\* `*` when it is the wildcard.
C19_SerializerFields ==
    (input.kind = "record" /\ pc \in {"file", "parsed"}) =>
        /\ EmittedKeys(text) = KeysWithContent(input.agent)
        /\ input.agent.tools = << <<"*">> >> =>
              \E k \in 1..Len(FileLines(text)) : FileLines(text)[k] = <<"tools", ":", SP, "*">>

----------------------------------------------------------------------------
(* routes.py: _parse_agent_file, _discover_mcp_servers, scan_project       *)

ModelType == {<<"opus">>, <<"sonnet">>, <<"haiku">>}

\* AgentConfig(...): ModelType(parsed.model) raises ValueError for a value that
\* is no member; pydantic's ValidationError, a ValueError, for a nickname that
\* is neither a string nor None.
AgentConfig(parsed) ==
    IF parsed.model \notin ModelType
    THEN Raise("ValueError", <<"is not a valid ModelType">>)
    ELSE IF parsed.nickname.t \notin {"none", "str"}
    THEN Raise("ValueError", <<"validation error for AgentConfig">>)
    ELSE Ok([filename |-> parsed.filename, name |-> parsed.name,
             description |-> parsed.description, model |-> parsed.model,
             tools |-> parsed.tools, skills |-> parsed.skills,
             nickname |-> parsed.nickname, body |-> parsed.body])

AgentConfigOf(parsed) == IF parsed.ok THEN AgentConfig(parsed.val) ELSE parsed

_parse_agent_file(file) ==
    One({AgentConfigOf(parsed) : parsed \in {parse_content(file.content, file.name)}})

\* A JSON config file by what reading it gives: absent, unreadable (read_text
\* raises), not JSON, a JSON number, a JSON array, an object whose
\* "mcpServers" is an array, or an object; keys are the names under
\* "mcpServers", has tells whether the object has that member.
McpAbsent == [state |-> "absent", has |-> FALSE, keys |-> <<>>]
McpInvalid == [state |-> "invalid", has |-> FALSE, keys |-> <<>>]
McpUnreadable == [state |-> "unreadable", has |-> FALSE, keys |-> <<>>]
McpNumber == [state |-> "number", has |-> FALSE, keys |-> <<>>]
McpArray == [state |-> "array", has |-> FALSE, keys |-> <<>>]
McpServersArray == [state |-> "servers_array", has |-> TRUE, keys |-> <<>>]
McpJson(has, keys) == [state |-> "json", has |-> has, keys |-> keys]

\* The names a config file configures.
McpKeys(config) == IF config.state = "json" /\ config.has THEN config.keys ELSE <<>>

\* The body of one `try`: read_text, json.loads, `"mcpServers" in data`,
\* data["mcpServers"].keys().
McpTry(config) ==
    CASE config.state = "unreadable" -> Raise("PermissionError", <<"Permission denied">>)
      [] config.state = "invalid" -> Raise("JSONDecodeError", <<"Expecting value">>)
      [] config.state = "number" -> Raise("TypeError", <<"argument of type int is not iterable">>)
      [] config.state = "array" -> Ok(<<>>)
      [] config.state = "servers_array" -> Raise("AttributeError", <<"list object has no attribute keys">>)
      [] config.state = "json" -> Ok(IF config.has THEN config.keys ELSE <<>>)

\* except (json.JSONDecodeError, KeyError): pass
McpExcept(result) ==
    IF ~result.ok /\ result.exc \in {"JSONDecodeError", "KeyError"} THEN Ok(<<>>) ELSE result

\* if ....exists(): try ... except ...
McpNames(config) ==
    IF config.state = "absent" THEN Ok(<<>>) ELSE McpExcept(McpTry(config))

McpMerge(servers, names) ==
    servers \o SelectSeq(names, LAMBDA name : name \notin Range(servers))

_discover_mcp_servers(project_mcp, global_mcp) ==
    IF ~McpNames(project_mcp).ok THEN McpNames(project_mcp)
    ELSE IF ~McpNames(global_mcp).ok THEN McpNames(global_mcp)
    ELSE Ok(McpMerge(McpNames(project_mcp).val, McpNames(global_mcp).val))

\* sorted(agents_dir.glob("*.md")): the .md files of the directory, by name.
MdFiles(files) == {f \in files : f.name.ext = "md"}
FileAt(files, stem) == CHOOSE f \in files : f.name.stem = stem
SortedGlob(files) ==
    [k \in 1..Cardinality(MdFiles(files)) |->
        FileAt(MdFiles(files), Kth({f.name.stem : f \in MdFiles(files)}, k))]

\* Bound of the scanned directory.
MaxFiles == 3

AgentFileText(modelName, modelHow) ==
    MappingText([name |-> "value", description |-> "value", model |-> modelHow,
                 modelName |-> modelName, tools |-> "string"])

\* What a file of the agents directory may hold.
DirEntries ==
    {[ext |-> "md", content |-> c] :
        c \in {AgentFileText(<<"opus">>, "value"), AgentFileText(<<"gpt">>, "value"),
               AgentFileText(<<"opus">>, "absent"), OtherTexts.scalar, OtherTexts.badyaml}}
    \cup {[ext |-> "txt", content |-> <<"notes", NL>>]}

Directories ==
    {{[name |-> [stem |-> i, ext |-> f[i].ext], content |-> f[i].content] : i \in 1..k} :
        k \in 0..MaxFiles, f \in [1..MaxFiles -> DirEntries]}

\* What a config file may be.
McpConfigs ==
    {McpAbsent, McpInvalid, McpUnreadable, McpNumber, McpArray, McpServersArray,
     McpJson(FALSE, <<>>), McpJson(TRUE, <<"s", "p">>), McpJson(TRUE, <<"g", "s">>)}

FileSystems ==
    {[kind |-> "missing", agents_dir |-> FALSE, files |-> {},
      project_mcp |-> McpAbsent, global_mcp |-> McpAbsent],
     [kind |-> "file", agents_dir |-> FALSE, files |-> {},
      project_mcp |-> McpAbsent, global_mcp |-> McpAbsent],
     [kind |-> "dir", agents_dir |-> FALSE, files |-> {},
      project_mcp |-> McpInvalid, global_mcp |-> McpJson(FALSE, <<>>)]}
    \cup {[kind |-> "dir", agents_dir |-> TRUE, files |-> d, project_mcp |-> p, global_mcp |-> g] :
            d \in Directories,
            p \in {McpAbsent, McpJson(TRUE, <<"s">>)},
            g \in {McpInvalid, McpJson(TRUE, <<"s", "g">>)}}
    \cup {[kind |-> "dir", agents_dir |-> TRUE, files |-> {}, project_mcp |-> p, global_mcp |-> g] :
            p \in McpConfigs, g \in McpConfigs}

ScanInit ==
    /\ fs \in FileSystems
    /\ _current_project = NULL
    /\ scan = [pc |-> "request", files |-> <<>>, i |-> 1, agents |-> <<>>,
               skipped |-> <<>>, response |-> NULL]
    /\ ParserIdle
    /\ EditorIdle

HTTPException(status) == [status |-> status]

\* scan_project up to the loop: the two path checks, then the listing.
ScanStart ==
    /\ scan.pc = "request"
    /\ scan' = (IF fs.kind = "missing"
                THEN [scan EXCEPT !.pc = "raised", !.response = HTTPException(404)]
                ELSE IF fs.kind # "dir"
                THEN [scan EXCEPT !.pc = "raised", !.response = HTTPException(400)]
                ELSE [scan EXCEPT !.pc = "loop",
                                  !.files = IF fs.agents_dir THEN SortedGlob(fs.files) ELSE <<>>])
    /\ UNCHANGED <<fs, _current_project, parserVars, editorVars>>

\* What one pass of the loop makes of the locals, given _parse_agent_file's result:
\* append, or skip on ValueError; any other exception leaves the handler.
ScanStep(sc, r) ==
    IF r.ok THEN [sc EXCEPT !.agents = Append(@, r.val), !.i = @ + 1]
    ELSE IF r.exc = "ValueError"
    THEN [sc EXCEPT !.skipped = Append(@, sc.files[sc.i].name), !.i = @ + 1]
    ELSE [sc EXCEPT !.pc = "raised", !.response = HTTPException(500)]

ScanFile ==
    /\ scan.pc = "loop"
    /\ scan.i <= Len(scan.files)
    /\ scan' = One({ScanStep(scan, r) : r \in {_parse_agent_file(scan.files[scan.i])}})
    /\ UNCHANGED <<fs, _current_project, parserVars, editorVars>>

\* What the end of scan_project makes of the locals, given the result of
\* _discover_mcp_servers: the response, or the exception leaves the handler.
ScanEnd(sc, servers) ==
    IF servers.ok
    THEN [sc EXCEPT !.pc = "done",
                    !.response = [status |-> 200,
                                  path |-> "project",
                                  agents |-> sc.agents,
                                  mcp_servers |-> servers.val,
                                  agent_count |-> Len(sc.agents)]]
    ELSE [sc EXCEPT !.pc = "raised", !.response = HTTPException(500)]

\* scan_project after the loop.
ScanReturn ==
    /\ scan.pc = "loop"
    /\ scan.i > Len(scan.files)
    /\ scan' = ScanEnd(scan, _discover_mcp_servers(fs.project_mcp, fs.global_mcp))
    /\ _current_project' = (IF scan'.pc = "done" THEN "project" ELSE _current_project)
    /\ UNCHANGED <<fs, parserVars, editorVars>>

ScanNext == ScanStart \/ ScanFile \/ ScanReturn

SpecScan == ScanInit /\ [][ScanNext]_vars

\* The agents a scan is to return: the configs of the files that parse and
\* validate, in the order of the listing.
ValidConfigs(files) ==
    LET ok == SelectSeq(files, LAMBDA f : _parse_agent_file(f).ok)
    IN  [k \in 1..Len(ok) |-> _parse_agent_file(ok[k]).val]

\* C3: the scan of a directory never ends in an exception over one file that
\* fails to parse or to validate: it returns every valid file's agent, none of
\* the failing ones, and agent_count is the number of agents returned. (A scan
\* that fails after its loop, over a config file, is C21's matter.)
C3_FailureIsolation ==
    (/\ scan # NULL /\ fs.kind = "dir" /\ scan.pc \in {"done", "raised"}
     /\ ~(scan.pc = "raised" /\ scan.i > Len(scan.files))) =>
        /\ scan.pc = "done"
        /\ scan.response.agents = ValidConfigs(scan.files)
        /\ scan.response.agent_count = Len(scan.response.agents)

\* The scan has come to the discovery of the MCP servers: its loop over the
\* agent files is over.
DiscoveryRan ==
    /\ scan # NULL /\ fs.kind = "dir"
    /\ scan.pc \in {"done", "raised"}
    /\ scan.i > Len(scan.files)

\* C21: the scan lists every configured MCP server name once, the project's
\* names first and then the global names that the project does not have; a
\* config file that cannot be read or is invalid gives no names and does not
\* fail the scan.
C21_McpDiscoveryMerge ==
    DiscoveryRan =>
        /\ scan.pc = "done"
        /\ scan.response.mcp_servers = McpMerge(McpKeys(fs.project_mcp), McpKeys(fs.global_mcp))
        /\ \A i, j \in 1..Len(scan.response.mcp_servers) :
              scan.response.mcp_servers[i] = scan.response.mcp_servers[j] => i = j

\* What holds of the discovery: with config files that are absent, not JSON,
\* a JSON array or an object, the scan answers with the merged names.
WellTypedConfig(config) == config.state \in {"absent", "invalid", "array", "json"}

McpMergeOfWellTyped ==
    (DiscoveryRan /\ WellTypedConfig(fs.project_mcp) /\ WellTypedConfig(fs.global_mcp)) =>
        /\ scan.pc = "done"
        /\ scan.response.mcp_servers = McpMerge(McpKeys(fs.project_mcp), McpKeys(fs.global_mcp))
        /\ \A i, j \in 1..Len(scan.response.mcp_servers) :
              scan.response.mcp_servers[i] = scan.response.mcp_servers[j] => i = j

McpMergeReached ==
    /\ DiscoveryRan
    /\ fs.project_mcp = McpJson(TRUE, <<"s", "p">>)
    /\ fs.global_mcp = McpJson(TRUE, <<"g", "s">>)
    /\ scan.response.mcp_servers = <<"s", "p", "g">>

----------------------------------------------------------------------------
(* routes.py: the three endpoints in use, one request after the other      *)

HTTPDetail(status, detail) == [status |-> status, detail |-> detail]

\* File names and paths: a name is a sequence of tokens, a path a sequence
\* of names.
A_MD == <<"a", ".", "md">>
B_MD == <<"b", ".", "md">>
ZZ_MD == <<"zz", ".", "md">>
SECRET_MD == <<"secret", ".", "md">>
X_MD == <<"x", ".", "md">>
DOTDOT == <<".", ".">>
ROOT == <<"/">>

\* The requests' paths and what is there: nothing, a file, two projects.
ProjectPaths == {"projA", "projB"}
RequestPaths == {"nowhere", "notes.txt"} \cup ProjectPaths

ApiFile(name, content) == [name |-> name, content |-> content]

ProjectDir(agents_dir, listing) ==
    [kind |-> "dir", agents_dir |-> agents_dir, listing |-> listing,
     project_mcp |-> McpJson(TRUE, <<"s">>), global_mcp |-> McpAbsent]

\* Directory listings are in the order of the names.
ListingsA ==
    {ProjectDir(TRUE, <<ApiFile(A_MD, AgentFileText(<<"opus">>, "value"))>>),
     ProjectDir(TRUE, <<ApiFile(A_MD, AgentFileText(<<"opus">>, "value")),
                        ApiFile(B_MD, AgentFileText(<<"gpt">>, "value")),
                        ApiFile(<<"notes", ".", "txt">>, <<"notes", NL>>)>>),
     ProjectDir(TRUE, <<ApiFile(A_MD, OtherTexts.scalar)>>),
     ProjectDir(FALSE, <<>>)}

ListingsB ==
    {ProjectDir(TRUE, <<ApiFile(B_MD, AgentFileText(<<"haiku">>, "value"))>>),
     ProjectDir(FALSE, <<>>)}

\* Files next to the agents directory, by their path from it.
OutsideFiles ==
    {[path |-> <<DOTDOT, SECRET_MD>>, content |-> AgentFileText(<<"opus">>, "value")],
     [path |-> <<ROOT, <<"etc">>, <<"passwd">>>>, content |-> <<"root", NL>>],
     [path |-> <<<<"sub">>, X_MD>>, content |-> AgentFileText(<<"opus">>, "value")]}

ApiFileSystems ==
    {[path \in RequestPaths |->
        IF path = "nowhere" THEN [kind |-> "missing"]
        ELSE IF path = "notes.txt" THEN [kind |-> "file"]
        ELSE IF path = "projA" THEN a ELSE b] : a \in ListingsA, b \in ListingsB}

\* `sub in filename` for a string of tokens.
contains(s, sub) == Occurrences(s, sub) # {}

\* The components of agents_dir / filename; a backslash separates too, as
\* it does where the platform takes it for a separator.
PathParts(filename) ==
    split([k \in 1..Len(filename) |-> IF filename[k] = "\\" THEN "/" ELSE filename[k]], "/")

\* The place the components lead to from the agents directory: `.` and empty
\* components stay, `..` goes up, a leading separator starts at the root.
RECURSIVE Resolve(_, _)
Resolve(parts, at) ==
    IF parts = <<>> THEN at
    ELSE IF parts[1] = <<>> \/ parts[1] = <<".">> THEN Resolve(Tail(parts), at)
    ELSE IF parts[1] = DOTDOT /\ at # <<>> /\ at[Len(at)] \notin {DOTDOT, ROOT}
    THEN Resolve(Tail(parts), SubSeq(at, 1, Len(at) - 1))
    ELSE Resolve(Tail(parts), Append(at, parts[1]))

file_path(filename) ==
    IF filename # <<>> /\ filename[1] \in {"/", "\\"}
    THEN Resolve(PathParts(filename), <<ROOT>>)
    ELSE Resolve(PathParts(filename), <<>>)

\* What is at a path from the agents directory of a project.
Missing404 == [kind |-> "missing"]
FileIn(dir, name) == CHOOSE f \in Range(dir.listing) : f.name = name
LookUp(dir, path) ==
    IF path # <<>> /\ path[1] = ROOT
    THEN IF \E o \in OutsideFiles : o.path = path
         THEN [kind |-> "file", file |-> ApiFile(path[Len(path)],
                                   (CHOOSE o \in OutsideFiles : o.path = path).content)]
         ELSE Missing404
    ELSE IF ~dir.agents_dir THEN Missing404
    ELSE IF path = <<>> THEN [kind |-> "dir"]
    ELSE IF Len(path) = 1 /\ \E f \in Range(dir.listing) : f.name = path[1]
    THEN [kind |-> "file", file |-> FileIn(dir, path[1])]
    ELSE IF \E o \in OutsideFiles : o.path = path
    THEN [kind |-> "file", file |-> ApiFile(path[Len(path)],
                              (CHOOSE o \in OutsideFiles : o.path = path).content)]
    ELSE Missing404

\* An answer of an endpoint: the response, the paths of the files it read
\* and the value it leaves in _current_project.
Answer(response, read, project) == [response |-> response, read |-> read, project |-> project]

\* The value of _current_project after a scan of path.
Loaded(path) == [t |-> "path", path |-> path]

\* _get_project_path's exception.
NoProjectLoaded == HTTPDetail(400, "No project loaded")

\* agents_dir.glob("*.md"), sorted.
GlobMd(dir) ==
    IF dir.agents_dir
    THEN SelectSeq(dir.listing, LAMBDA f : f.name[Len(f.name)] = "md" /\ Len(f.name) >= 2
                                             /\ f.name[Len(f.name) - 1] = ".")
    ELSE <<>>

\* The loop over the files, from the locals sc on.
RECURSIVE ScanAll(_)
ScanAll(sc) ==
    IF sc.pc = "raised" \/ sc.i > Len(sc.files) THEN sc
    ELSE ScanAll(One({ScanStep(sc, r) : r \in {_parse_agent_file(sc.files[sc.i])}}))

ScanLocals(dir) ==
    [pc |-> "loop", files |-> GlobMd(dir), i |-> 1, agents |-> <<>>, skipped |-> <<>>,
     response |-> NULL]

\* The files the loop has read: those before the one it stopped at, and that one.
ReadBy(sc) ==
    {<<sc.files[k].name>> : k \in 1..Min({Len(sc.files), sc.i})}

ScanAnswer(path, dir, sc, current) ==
    IF sc.pc = "raised" \/ ~_discover_mcp_servers(dir.project_mcp, dir.global_mcp).ok
    THEN Answer(HTTPDetail(500, "Internal Server Error"), ReadBy(sc), current)
    ELSE Answer([status |-> 200, path |-> path, agents |-> sc.agents,
                 mcp_servers |-> _discover_mcp_servers(dir.project_mcp, dir.global_mcp).val,
                 agent_count |-> Len(sc.agents)], ReadBy(sc), Loaded(path))

\* scan_project with `_current_project = project_path` ahead of the checks.
scan_projectSetsFirst(files, path, current) ==
    IF files[path].kind = "missing"
    THEN Answer(HTTPDetail(404, "Directory not found"), {}, Loaded(path))
    ELSE IF files[path].kind # "dir"
    THEN Answer(HTTPDetail(400, "Path is not a directory"), {}, Loaded(path))
    ELSE One({ScanAnswer(path, files[path], sc, current) :
                 sc \in {ScanAll(ScanLocals(files[path]))}})

scan_project(files, path, current) ==
    IF files[path].kind = "missing" THEN Answer(HTTPDetail(404, "Directory not found"), {}, current)
    ELSE IF files[path].kind # "dir"
    THEN Answer(HTTPDetail(400, "Path is not a directory"), {}, current)
    ELSE One({ScanAnswer(path, files[path], sc, current) :
                 sc \in {ScanAll(ScanLocals(files[path]))}})

ListAnswer(sc, current) ==
    IF sc.pc = "raised" THEN Answer(HTTPDetail(500, "Internal Server Error"), ReadBy(sc), current)
    ELSE Answer([status |-> 200, agents |-> sc.agents, count |-> Len(sc.agents)],
                ReadBy(sc), current)

list_agents(files, current) ==
    IF current = NULL THEN Answer(NoProjectLoaded, {}, current)
    ELSE One({ListAnswer(sc, current) : sc \in {ScanAll(ScanLocals(files[current.path]))}})

\* get_agent's test of the file name, without the tests for the separators.
InvalidFilenameDotsOnly(filename) == contains(filename, DOTDOT)

InvalidFilename(filename) ==
    contains(filename, <<"/">>) \/ contains(filename, <<"\\">>) \/ contains(filename, DOTDOT)

GetParsed(r, path, current) ==
    IF r.ok THEN Answer([status |-> 200, agent |-> r.val], {path}, current)
    ELSE IF r.exc = "ValueError" THEN Answer(HTTPDetail(422, "Invalid agent file"), {path}, current)
    ELSE Answer(HTTPDetail(500, "Internal Server Error"), {path}, current)

GetFound(found, path, current) ==
    IF found.kind = "missing" THEN Answer(HTTPDetail(404, "Agent not found"), {}, current)
    ELSE IF found.kind = "dir" THEN Answer(HTTPDetail(500, "Internal Server Error"), {}, current)
    ELSE One({GetParsed(r, path, current) : r \in {_parse_agent_file(found.file)}})

get_agent(files, filename, current) ==
    IF current = NULL THEN Answer(NoProjectLoaded, {}, current)
    ELSE IF InvalidFilename(filename) THEN Answer(HTTPDetail(400, "Invalid filename"), {}, current)
    ELSE One({GetFound(LookUp(files[current.path], path), path, current) :
                 path \in {file_path(filename)}})

\* The file names asked for.
Filenames ==
    {A_MD, B_MD, ZZ_MD, <<>>, <<".">>, DOTDOT, <<"a", ".", ".", "md">>,
     DOTDOT \o <<"/">> \o SECRET_MD, DOTDOT \o <<"\\">> \o SECRET_MD,
     <<"sub", "/">> \o X_MD, <<"sub", "\\">> \o X_MD,
     <<"/", "etc", "/", "passwd">>}

Requests ==
    {[op |-> "scan_project", path |-> path] : path \in RequestPaths}
    \cup {[op |-> "list_agents"]}
    \cup {[op |-> "get_agent", filename |-> filename] : filename \in Filenames}

ApiInit ==
    /\ fs \in ApiFileSystems
    /\ _current_project = NULL
    /\ scan = [request |-> NULL, response |-> NULL, read |-> {}]
    /\ ParserIdle
    /\ EditorIdle

\* A request is answered: the handler runs from its first line to its last.
Answered(request, answer) ==
    /\ scan' = [request |-> request, response |-> answer.response, read |-> answer.read]
    /\ _current_project' = answer.project
    /\ UNCHANGED <<fs, parserVars, editorVars>>

PostScan == \E path \in RequestPaths :
    Answered([op |-> "scan_project", path |-> path], scan_project(fs, path, _current_project))

GetAgents == Answered([op |-> "list_agents"], list_agents(fs, _current_project))

GetAgent == \E filename \in Filenames :
    Answered([op |-> "get_agent", filename |-> filename],
             get_agent(fs, filename, _current_project))

ApiNext == PostScan \/ GetAgents \/ GetAgent

SpecApi == ApiInit /\ [][ApiNext]_vars

\* The last request was one to the endpoint op.
LastWas(op) == scan.request # NULL /\ scan.request.op = op

\* The step is a request to scan_project, answered with or without 200.
ScanSucceeds ==
    scan'.request # NULL /\ scan'.request.op = "scan_project" /\ scan'.response.status = 200
ScanFails ==
    scan'.request # NULL /\ scan'.request.op = "scan_project" /\ scan'.response.status # 200

\* C13: while no scan has succeeded _current_project is None and list_agents
\* and get_agent answer 400 "No project loaded"; only a successful scan sets
\* the current project, to the path it scanned, and a scan that fails (404,
\* 400) leaves it as it was.
C13_CurrentProjectProtocol ==
    /\ []((_current_project = NULL /\ (LastWas("list_agents") \/ LastWas("get_agent")))
            => scan.response = NoProjectLoaded)
    /\ [][/\ _current_project' # _current_project => ScanSucceeds
          /\ ScanSucceeds => _current_project' = Loaded(scan'.request.path)
          /\ ScanFails => _current_project' = _current_project]_vars

\* C13 witness: with projA loaded, a scan of a path where nothing is has been
\* answered 404 and projA is still the current project.
C13_Witness ==
    /\ LastWas("scan_project")
    /\ scan.request.path = "nowhere"
    /\ scan.response = HTTPDetail(404, "Directory not found")
    /\ _current_project = Loaded("projA")

\* The file name has a separator or two dots in a row.
HasTraversal(filename) ==
    \E i \in 1..Len(filename) :
        \/ filename[i] \in {"/", "\\"}
        \/ i < Len(filename) /\ filename[i] = "." /\ filename[i + 1] = "."

\* The path, taken from the agents directory, stays in it.
InAgentsDir(path) == path # <<>> /\ path[1] \notin {DOTDOT, ROOT}

\* C14: get_agent with a file name that has `/`, `\` or `..` in it is
\* answered 400, "Invalid filename" when a project is loaded, and no request
\* reads a file outside the agents directory of the project.
C14_PathTraversalBlocked ==
    /\ (LastWas("get_agent") /\ HasTraversal(scan.request.filename)) =>
          /\ scan.response.status = 400
          /\ scan.read = {}
          /\ _current_project # NULL => scan.response = HTTPDetail(400, "Invalid filename")
    /\ \A path \in scan.read : InAgentsDir(path)

\* C14 witness: with a project loaded, get_agent("../secret.md") has been
\* answered 400 "Invalid filename", and the file is there.
C14_Witness ==
    /\ LastWas("get_agent")
    /\ scan.request.filename = DOTDOT \o <<"/">> \o SECRET_MD
    /\ _current_project # NULL
    /\ fs[_current_project.path].agents_dir
    /\ scan.response = HTTPDetail(400, "Invalid filename")
    /\ \E o \in OutsideFiles : o.path = file_path(scan.request.filename)

----------------------------------------------------------------------------
(* frontend/src/App.tsx: the derived lists and the handlers of App and     *)
(* AgentEditor.  The state u holds that of both components: projectData,   *)
(* editingAgent and globalResources of App; editedAgent and activeTab of   *)
(* the mounted AgentEditor (NULL and "none" while there is none).          *)
(* Identifiers are token sequences, "__" being one token.                  *)

DEFAULT_CLAUDE_TOOLS ==
    << <<"Read">>, <<"Write">>, <<"Edit">>, <<"Bash">>, <<"Glob">>, <<"Grep">>,
       <<"Task">>, <<"WebFetch">>, <<"WebSearch">>, <<"NotebookEdit">>,
       <<"TodoWrite">>, <<"AskUserQuestion">>, <<"Skill">>, <<"LSP">> >>

MCP_PREFIX == <<"mcp", "__">>

\* Array.prototype.includes, Array.prototype.filter with `x !== item`
includes(arr, x) == \E i \in 1..Len(arr) : arr[i] = x
without(arr, x) == SelectSeq(arr, LAMBDA y : y # x)

agentBaseTools(u) == SelectSeq(u.editedAgent.tools, LAMBDA t : ~startswith(t, MCP_PREFIX))
agentMcpTools(u) == SelectSeq(u.editedAgent.tools, LAMBDA t : startswith(t, MCP_PREFIX))

SkillNames(globalResources) ==
    [i \in 1..Len(globalResources.skills) |-> globalResources.skills[i].name]

availableSkills(u) ==
    SelectSeq(SkillNames(u.globalResources), LAMBDA name : ~includes(u.editedAgent.skills, name))

\* The list computed from the `agent` prop instead of the edited copy.
availableBaseToolsOfProp(u) ==
    SelectSeq(DEFAULT_CLAUDE_TOOLS, LAMBDA name : ~includes(u.editingAgent.tools, name))

availableBaseTools(u) ==
    SelectSeq(DEFAULT_CLAUDE_TOOLS, LAMBDA name : ~includes(agentBaseTools(u), name))

\* The state setters.  setEditingAgent mounts the editor, whose state starts
\* as `{ ...agent }` and 'tools', or unmounts it.
setProjectData(u, projectData) == [u EXCEPT !.projectData = projectData]
setEditingAgent(u, agent) ==
    [u EXCEPT !.editingAgent = agent,
               !.editedAgent = agent,
               !.activeTab = IF agent = NULL THEN "none" ELSE "tools"]
setActiveTab(u, tab) == [u EXCEPT !.activeTab = tab]

\* The agents with the one of updatedAgent's filename replaced by it.
ReplaceAgent(agents, updatedAgent) ==
    [i \in 1..Len(agents) |->
        IF agents[i].filename = updatedAgent.filename THEN updatedAgent ELSE agents[i]]

\* A setter that writes the edited object through to the agent list.
setEditedAgentInPlace(u, editedAgent) ==
    [u EXCEPT !.editedAgent = editedAgent,
               !.projectData = [@ EXCEPT !.agents = ReplaceAgent(@, editedAgent)]]

setEditedAgent(u, editedAgent) == [u EXCEPT !.editedAgent = editedAgent]

\* addBaseTool without the `includes` test.
addBaseToolAlways(u, tool) ==
    setEditedAgent(u, [u.editedAgent EXCEPT !.tools = Append(@, tool)])

addBaseTool(u, tool) ==
    IF ~includes(u.editedAgent.tools, tool)
    THEN setEditedAgent(u, [u.editedAgent EXCEPT !.tools = Append(@, tool)])
    ELSE u

\* removeBaseTool that also drops the tool's name from the skills.
removeBaseToolEverywhere(u, tool) ==
    setEditedAgent(u, [u.editedAgent EXCEPT !.tools = without(@, tool),
                                              !.skills = without(@, tool)])

removeBaseTool(u, tool) ==
    setEditedAgent(u, [u.editedAgent EXCEPT !.tools = without(@, tool)])

addMcpTool(u, fullName) ==
    IF ~includes(u.editedAgent.tools, fullName)
    THEN setEditedAgent(u, [u.editedAgent EXCEPT !.tools = Append(@, fullName)])
    ELSE u

removeMcpTool(u, fullName) ==
    setEditedAgent(u, [u.editedAgent EXCEPT !.tools = without(@, fullName)])

addSkill(u, skill) ==
    IF ~includes(u.editedAgent.skills, skill)
    THEN setEditedAgent(u, [u.editedAgent EXCEPT !.skills = Append(@, skill)])
    ELSE u

removeSkill(u, skill) ==
    setEditedAgent(u, [u.editedAgent EXCEPT !.skills = without(@, skill)])

\* The handler a drop on the Available zone calls, "none" when it calls none;
\* data is the parsed payload, data.valid telling whether JSON.parse succeeded.
AvailableDropCall(u, data) ==
    IF ~data.valid \/ data.source # "assigned" THEN "none"
    ELSE IF u.activeTab = "skills" /\ data.type = "skill" THEN "removeSkill"
    ELSE IF u.activeTab = "tools" /\ data.type = "tool" THEN "removeBaseTool"
    ELSE IF u.activeTab = "mcp" /\ data.type = "mcp" THEN "removeMcpTool"
    ELSE "none"

handleAvailableDrop(u, data) ==
    CASE AvailableDropCall(u, data) = "removeSkill" -> removeSkill(u, data.name)
      [] AvailableDropCall(u, data) = "removeBaseTool" -> removeBaseTool(u, data.name)
      [] AvailableDropCall(u, data) = "removeMcpTool" -> removeMcpTool(u, data.name)
      [] OTHER -> u

AssignedDropCall(u, data) ==
    IF ~data.valid \/ data.source # "available" THEN "none"
    ELSE IF u.activeTab = "skills" /\ data.type = "skill" THEN "addSkill"
    ELSE IF u.activeTab = "tools" /\ data.type = "tool" THEN "addBaseTool"
    ELSE IF u.activeTab = "mcp" /\ data.type = "mcp" THEN "addMcpTool"
    ELSE "none"

\* handleAssignedDrop without the test of data.source.
handleAssignedDropAnySource(u, data) ==
    IF ~data.valid THEN u
    ELSE IF u.activeTab = "skills" /\ data.type = "skill" THEN addSkill(u, data.name)
    ELSE IF u.activeTab = "tools" /\ data.type = "tool" THEN addBaseTool(u, data.name)
    ELSE IF u.activeTab = "mcp" /\ data.type = "mcp" THEN addMcpTool(u, data.name)
    ELSE u

handleAssignedDrop(u, data) ==
    CASE AssignedDropCall(u, data) = "addSkill" -> addSkill(u, data.name)
      [] AssignedDropCall(u, data) = "addBaseTool" -> addBaseTool(u, data.name)
      [] AssignedDropCall(u, data) = "addMcpTool" -> addMcpTool(u, data.name)
      [] OTHER -> u

handleEditAgent(u, agent) == setEditingAgent(u, agent)

\* onClose={() => setEditingAgent(null)}
onClose(u) == setEditingAgent(u, NULL)

\* handleSaveAgent of the render whose projectData is `projectData`.
handleSaveAgent(u, projectData, updatedAgent) ==
    IF projectData = NULL THEN u
    ELSE setProjectData(u, [projectData EXCEPT !.agents = ReplaceAgent(@, updatedAgent)])

\* The PUT that handleSave sends, with what its continuation holds on to: the
\* editedAgent of the render, and onSave, which is handleSaveAgent of that
\* render and so holds that render's projectData.
SaveRequest(u, id) ==
    [id |-> id,
     filename |-> u.editingAgent.filename,
     payload |-> [name |-> u.editedAgent.name, description |-> u.editedAgent.description,
                  model |-> u.editedAgent.model, tools |-> u.editedAgent.tools,
                  skills |-> u.editedAgent.skills, body |-> u.editedAgent.body],
     editedAgent |-> u.editedAgent,
     projectData |-> u.projectData]

----------------------------------------------------------------------------
(* The editor in use: projects, events, saves in flight                    *)

\* Bound: the edit events and Save clicks of a run, taken together.
MaxEvents == 3

McpTool == <<"mcp", "__", "s", "__", "a">>

Agent(filename, tools, disallowedTools, skills) ==
    [filename |-> filename, name |-> "architect", description |-> "System design",
     model |-> "opus", tools |-> tools, disallowedTools |-> disallowedTools,
     skills |-> skills, nickname |-> "Ada", body |-> "You design."]

\* The agents of the project, as a scan returns them: one with two tools, a
\* skill and Bash disallowed; one whose file lists Read twice and names a
\* skill the catalog does not have.
ProjectAgents ==
    <<Agent("a.md", << <<"Read">>, McpTool >>, << <<"Bash">> >>, << <<"tdd">> >>),
      Agent("b.md", << <<"Read">>, <<"Read">> >>, <<>>, << <<"custom">> >>)>>

SkillInfo(name) == [name |-> name, path |-> "skills", description |-> "skill"]

\* The catalog of /api/resources/global.
Catalog == [skills |-> <<SkillInfo(<<"tdd">>), SkillInfo(<<"review">>)>>, mcp_servers |-> <<>>]

\* What a drag may carry: the items the three tabs show, from either list, and
\* text that is no JSON.
DragItems ==
    {[type |-> "tool", name |-> <<"Bash">>], [type |-> "tool", name |-> <<"Read">>],
     [type |-> "mcp", name |-> McpTool],
     [type |-> "skill", name |-> <<"tdd">>]}
DragData ==
    {[valid |-> FALSE, type |-> "none", name |-> <<>>, source |-> "none"]}
    \cup {[valid |-> TRUE, type |-> d.type, name |-> d.name, source |-> src] :
             d \in DragItems, src \in {"available", "assigned"}}
    \cup {[valid |-> TRUE, type |-> d.type, name |-> d.name, source |-> "none"] :
             d \in {d \in DragItems : d.type \in {"skill", "mcp"}}}

\* A payload is malformed (valid is FALSE) when JSON.parse throws on it; the
\* payloads of the sidebar carry a type and a name and no source.

\* What typing into a field leaves in it.
FieldValues == [name |-> "reviewer", model |-> "haiku"]

Op(name, item, had) == [name |-> name, item |-> item, had |-> had]

EditorInit ==
    /\ ui = [projectData |-> [path |-> "project", agents |-> ProjectAgents,
                              mcp_servers |-> <<>>, agent_count |-> 2],
             editingAgent |-> NULL, globalResources |-> Catalog,
             editedAgent |-> NULL, activeTab |-> "none"]
    /\ requests = {}
    /\ putCount = 0
    /\ events = 0
    /\ lastOp = Op("none", <<>>, FALSE)
    /\ ParserIdle
    /\ ScanIdle

Mounted == ui.editingAgent # NULL

\* A click on an agent card; the open editor covers the cards.
ClickAgent ==
    /\ ~Mounted
    /\ \E i \in 1..Len(ui.projectData.agents) :
          ui' = handleEditAgent(ui, ui.projectData.agents[i])
    /\ lastOp' = Op("none", <<>>, FALSE)
    /\ UNCHANGED <<requests, putCount, events, parserVars, scanVars>>

ClickTab ==
    /\ Mounted
    /\ \E tab \in {"tools", "skills", "mcp"} : ui' = setActiveTab(ui, tab)
    /\ UNCHANGED <<requests, putCount, events, lastOp, parserVars, scanVars>>

\* The list an add or remove handler works on.
ListOf(handler) == IF handler \in {"addSkill", "removeSkill"} THEN "skills" ELSE "tools"

DropOnAssigned ==
    /\ Mounted
    /\ events < MaxEvents
    /\ \E data \in DragData :
          /\ ui' = handleAssignedDrop(ui, data)
          /\ lastOp' = Op(AssignedDropCall(ui, data), data.name,
                          /\ AssignedDropCall(ui, data) # "none"
                          /\ includes(ui.editedAgent[ListOf(AssignedDropCall(ui, data))], data.name))
    /\ events' = events + 1
    /\ UNCHANGED <<requests, putCount, parserVars, scanVars>>

DropOnAvailable ==
    /\ Mounted
    /\ events < MaxEvents
    /\ \E data \in DragData :
          /\ ui' = handleAvailableDrop(ui, data)
          /\ lastOp' = Op(AvailableDropCall(ui, data), data.name,
                          /\ AvailableDropCall(ui, data) # "none"
                          /\ includes(ui.editedAgent[ListOf(AvailableDropCall(ui, data))], data.name))
    /\ events' = events + 1
    /\ UNCHANGED <<requests, putCount, parserVars, scanVars>>

\* The X button of an item of the Assigned list of the active tab.
ClickRemove ==
    /\ Mounted
    /\ events < MaxEvents
    /\ \/ /\ ui.activeTab = "tools"
          /\ \E item \in Range(agentBaseTools(ui)) :
                ui' = removeBaseTool(ui, item) /\ lastOp' = Op("removeBaseTool", item, TRUE)
       \/ /\ ui.activeTab = "skills"
          /\ \E item \in Range(ui.editedAgent.skills) :
                ui' = removeSkill(ui, item) /\ lastOp' = Op("removeSkill", item, TRUE)
       \/ /\ ui.activeTab = "mcp"
          /\ \E item \in Range(agentMcpTools(ui)) :
                ui' = removeMcpTool(ui, item) /\ lastOp' = Op("removeMcpTool", item, TRUE)
    /\ events' = events + 1
    /\ UNCHANGED <<requests, putCount, parserVars, scanVars>>

\* onChange of an input: of the name, of the model.
ChangeField ==
    /\ Mounted
    /\ events < MaxEvents
    /\ \E field \in DOMAIN FieldValues :
          ui' = setEditedAgent(ui, [ui.editedAgent EXCEPT ![field] = FieldValues[field]])
    /\ lastOp' = Op("onChange", <<>>, FALSE)
    /\ events' = events + 1
    /\ UNCHANGED <<requests, putCount, parserVars, scanVars>>

\* Cancel, or the X of the dialog; had tells whether edits were discarded.
ClickCancel ==
    /\ Mounted
    /\ ui' = onClose(ui)
    /\ lastOp' = Op("onClose", <<>>, ui.editedAgent # ui.editingAgent)
    /\ UNCHANGED <<requests, putCount, events, parserVars, scanVars>>

\* handleSave up to the await: the PUT leaves.
ClickSave ==
    /\ Mounted
    /\ events < MaxEvents
    /\ requests' = requests \cup {SaveRequest(ui, putCount + 1)}
    /\ putCount' = putCount + 1
    /\ events' = events + 1
    /\ UNCHANGED <<ui, lastOp, parserVars, scanVars>>

\* handleSave after the await, response.ok: onSave(editedAgent); onClose().
SaveOk(r) ==
    /\ r \in requests
    /\ ui' = onClose(handleSaveAgent(ui, r.projectData, r.editedAgent))
    /\ requests' = requests \ {r}
    /\ lastOp' = Op("onSave", <<>>, TRUE)
    /\ UNCHANGED <<putCount, events, parserVars, scanVars>>

\* handleSave whose catch block calls onClose after the alert.
SaveFailedCloses(r) ==
    /\ r \in requests
    /\ ui' = onClose(ui)
    /\ requests' = requests \ {r}
    /\ lastOp' = Op("alert", <<>>, FALSE)
    /\ UNCHANGED <<putCount, events, parserVars, scanVars>>

\* handleSave after the await, fetch rejected or !response.ok: the alert.
SaveFailed(r) ==
    /\ r \in requests
    /\ requests' = requests \ {r}
    /\ lastOp' = Op("alert", <<>>, FALSE)
    /\ UNCHANGED <<ui, putCount, events, parserVars, scanVars>>

SaveResponseOk == \E r \in requests : SaveOk(r)
SaveResponseFailed == \E r \in requests : SaveFailed(r)

EditorNext ==
    \/ ClickAgent \/ ClickTab \/ DropOnAssigned \/ DropOnAvailable \/ ClickRemove
    \/ ChangeField \/ ClickCancel \/ ClickSave \/ SaveResponseOk \/ SaveResponseFailed

SpecEditor == EditorInit /\ [][EditorNext]_vars

----------------------------------------------------------------------------
(* The editor that assigns whole MCP servers by their wildcard             *)

\* String.prototype.toLowerCase on the tokens of a name.
toLowerCase(name) ==
    [k \in 1..Len(name) |-> IF name[k] = "GitHub" THEN "github"
                            ELSE IF name[k] = "My" THEN "my" ELSE name[k]]

\* replace(/-/g, '_') and replace(/_/g, '-'); "__" is two underscores.
DashToUnderscore(name) == [k \in 1..Len(name) |-> IF name[k] = "-" THEN "_" ELSE name[k]]
UnderscoreToDash(name) ==
    Concat([k \in 1..Len(name) |-> IF name[k] = "_" THEN <<"-">>
                                   ELSE IF name[k] = "__" THEN <<"-", "-">>
                                   ELSE <<name[k]>>])

toMcpWildcard(serverName) ==
    MCP_PREFIX \o DashToUnderscore(toLowerCase(serverName)) \o <<"__", "*">>

\* wildcard.match(/^mcp__(.+)__\*$/)
WildcardMatch(wildcard) ==
    /\ Len(wildcard) >= 5
    /\ startswith(wildcard, MCP_PREFIX)
    /\ SubSeq(wildcard, Len(wildcard) - 1, Len(wildcard)) = <<"__", "*">>

\* The result of fromMcpWildcard, `string | null`: <<name>> or <<>>.
\* fromMcpWildcard that takes whatever follows the prefix for the name.
fromMcpWildcardLoose(wildcard) == <<UnderscoreToDash(SliceFrom(wildcard, 2))>>

fromMcpWildcard(wildcard) ==
    IF ~WildcardMatch(wildcard) THEN <<>>
    ELSE <<UnderscoreToDash(SubSeq(wildcard, 3, Len(wildcard) - 2))>>

ServerNames(globalResources) ==
    [i \in 1..Len(globalResources.mcp_servers) |-> globalResources.mcp_servers[i].name]

\* agentMcpTools.map(fromMcpWildcard).filter(name => name !== null)
assignedMcpServers(u) ==
    Concat([i \in 1..Len(agentMcpTools(u)) |-> fromMcpWildcard(agentMcpTools(u)[i])])

\* The list with the servers that are not connected left out.
availableMcpServersConnected(u) ==
    SelectSeq(ServerNames([mcp_servers |->
                  SelectSeq(u.globalResources.mcp_servers, LAMBDA srv : srv.connected)]),
              LAMBDA name : ~includes(assignedMcpServers(u), name))

availableMcpServers(u) ==
    SelectSeq(ServerNames(u.globalResources), LAMBDA name : ~includes(assignedMcpServers(u), name))

\* addMcpServer without the `includes` test.
addMcpServerAlways(u, serverName) ==
    setEditedAgent(u, [u.editedAgent EXCEPT !.tools = Append(@, toMcpWildcard(serverName))])

addMcpServer(u, serverName) ==
    IF ~includes(u.editedAgent.tools, toMcpWildcard(serverName))
    THEN setEditedAgent(u, [u.editedAgent EXCEPT !.tools = Append(@, toMcpWildcard(serverName))])
    ELSE u

removeMcpServer(u, serverName) ==
    setEditedAgent(u, [u.editedAgent EXCEPT !.tools = without(@, toMcpWildcard(serverName))])

\* handleAvailableDrop and handleAssignedDrop of this editor: the mcp branch
\* calls removeMcpServer and addMcpServer.
ServersAvailableDropCall(u, data) ==
    IF ~data.valid \/ data.source # "assigned" THEN "none"
    ELSE IF u.activeTab = "skills" /\ data.type = "skill" THEN "removeSkill"
    ELSE IF u.activeTab = "tools" /\ data.type = "tool" THEN "removeBaseTool"
    ELSE IF u.activeTab = "mcp" /\ data.type = "mcp" THEN "removeMcpServer"
    ELSE "none"

handleAvailableDropServers(u, data) ==
    CASE ServersAvailableDropCall(u, data) = "removeSkill" -> removeSkill(u, data.name)
      [] ServersAvailableDropCall(u, data) = "removeBaseTool" -> removeBaseTool(u, data.name)
      [] ServersAvailableDropCall(u, data) = "removeMcpServer" -> removeMcpServer(u, data.name)
      [] OTHER -> u

ServersAssignedDropCall(u, data) ==
    IF ~data.valid \/ data.source # "available" THEN "none"
    ELSE IF u.activeTab = "skills" /\ data.type = "skill" THEN "addSkill"
    ELSE IF u.activeTab = "tools" /\ data.type = "tool" THEN "addBaseTool"
    ELSE IF u.activeTab = "mcp" /\ data.type = "mcp" THEN "addMcpServer"
    ELSE "none"

handleAssignedDropServers(u, data) ==
    CASE ServersAssignedDropCall(u, data) = "addSkill" -> addSkill(u, data.name)
      [] ServersAssignedDropCall(u, data) = "addBaseTool" -> addBaseTool(u, data.name)
      [] ServersAssignedDropCall(u, data) = "addMcpServer" -> addMcpServer(u, data.name)
      [] OTHER -> u

\* The label of an assigned MCP tool in the editor that lists single tools.
displayName(fullName) ==
    IF Len(split(fullName, "__")) >= 3 THEN split(fullName, "__")[3] ELSE fullName

\* The servers of /api/resources/global: one connected, two that are not.
MCPServerInfo(name, connected) ==
    [name |-> name, command |-> "npx", url |-> NULL, connected |-> connected]

ServerCatalog ==
    [skills |-> <<SkillInfo(<<"tdd">>)>>,
     mcp_servers |-> <<MCPServerInfo(<<"s">>, TRUE),
                       MCPServerInfo(<<"my", "-", "server">>, FALSE),
                       MCPServerInfo(<<"GitHub">>, FALSE)>>]

\* The agents the editor is opened on: their tools as the files list them,
\* with wildcards, single actions, identifiers that follow no pattern, `*`.
ServerAgents ==
    {Agent("a.md", << <<"Read">> >>, <<>>, <<>>),
     Agent("b.md", << <<"Read">>, toMcpWildcard(<<"s">>) >>, <<>>, <<>>),
     Agent("c.md", << <<"mcp", "__", "x">>, McpTool, MCP_PREFIX, <<"mcp", "__", "__", "*">> >>,
           <<>>, <<>>),
     Agent("d.md", << <<"*">> >>, <<>>, <<>>)}

\* What a drag carries in this editor: an item of the Available or of the
\* Assigned list of the active tab.
ServerDragData(u) ==
    IF u.activeTab = "mcp"
    THEN {[valid |-> TRUE, type |-> "mcp", name |-> n, source |-> "available"] :
             n \in Range(availableMcpServers(u))}
         \cup {[valid |-> TRUE, type |-> "mcp", name |-> n, source |-> "assigned"] :
                  n \in Range(assignedMcpServers(u))}
    ELSE {[valid |-> TRUE, type |-> "tool", name |-> n, source |-> "available"] :
             n \in Range(availableBaseTools(u)) \cap {<<"Bash">>, <<"Read">>}}
         \cup {[valid |-> TRUE, type |-> "tool", name |-> n, source |-> "assigned"] :
                  n \in Range(agentBaseTools(u))}

ServersInit ==
    /\ \E agent \in ServerAgents :
          ui = [projectData |-> NULL, editingAgent |-> agent, globalResources |-> ServerCatalog,
                editedAgent |-> agent, activeTab |-> "tools"]
    /\ requests = {}
    /\ putCount = 0
    /\ events = 0
    /\ lastOp = Op("none", <<>>, FALSE)
    /\ ParserIdle
    /\ ScanIdle

ServersClickTab ==
    /\ \E tab \in {"tools", "mcp"} : ui' = setActiveTab(ui, tab)
    /\ UNCHANGED <<requests, putCount, events, lastOp, parserVars, scanVars>>

ServersDropOnAssigned ==
    /\ events < MaxEvents
    /\ \E data \in ServerDragData(ui) :
          /\ ui' = handleAssignedDropServers(ui, data)
          /\ lastOp' = Op(ServersAssignedDropCall(ui, data), data.name,
                          /\ ServersAssignedDropCall(ui, data) = "addMcpServer"
                          /\ includes(ui.editedAgent.tools, toMcpWildcard(data.name)))
    /\ events' = events + 1
    /\ UNCHANGED <<requests, putCount, parserVars, scanVars>>

ServersDropOnAvailable ==
    /\ events < MaxEvents
    /\ \E data \in ServerDragData(ui) :
          /\ ui' = handleAvailableDropServers(ui, data)
          /\ lastOp' = Op(ServersAvailableDropCall(ui, data), data.name,
                          /\ ServersAvailableDropCall(ui, data) = "removeMcpServer"
                          /\ includes(ui.editedAgent.tools, toMcpWildcard(data.name)))
    /\ events' = events + 1
    /\ UNCHANGED <<requests, putCount, parserVars, scanVars>>

\* The X button of an item of the Assigned list of the active tab.
ServersClickRemove ==
    /\ events < MaxEvents
    /\ \/ /\ ui.activeTab = "tools"
          /\ \E item \in Range(agentBaseTools(ui)) :
                ui' = removeBaseTool(ui, item) /\ lastOp' = Op("removeBaseTool", item, TRUE)
       \/ /\ ui.activeTab = "mcp"
          /\ \E item \in Range(assignedMcpServers(ui)) :
                /\ ui' = removeMcpServer(ui, item)
                /\ lastOp' = Op("removeMcpServer", item,
                                includes(ui.editedAgent.tools, toMcpWildcard(item)))
    /\ events' = events + 1
    /\ UNCHANGED <<requests, putCount, parserVars, scanVars>>

ServersNext ==
    ServersClickTab \/ ServersDropOnAssigned \/ ServersDropOnAvailable \/ ServersClickRemove

SpecServers == ServersInit /\ [][ServersNext]_vars

\* How often x occurs in the list.
CountIn(arr, x) == Cardinality({i \in 1..Len(arr) : arr[i] = x})

IsWildcardOf(tool, name) ==
    /\ Len(tool) >= 5
    /\ tool[1] = "mcp" /\ tool[2] = "__"
    /\ tool[Len(tool) - 1] = "__" /\ tool[Len(tool)] = "*"
    /\ UnderscoreToDash(SubSeq(tool, 3, Len(tool) - 2)) = name

\* The drag of the server `name` from the Available list of the MCP tab.
DragOfServer(name) == [valid |-> TRUE, type |-> "mcp", name |-> name, source |-> "available"]

C18_WildcardLeavesNoneAvailable ==
    includes(ui.editedAgent.tools, <<"*">>) => availableBaseTools(ui) = <<>>

\* An MCP identifier that is not of the form mcp__<server>__<rest>.
WellFormedMcp(tool) ==
    /\ Len(tool) >= 5
    /\ tool[1] = "mcp" /\ tool[2] = "__"
    /\ \E k \in 4..(Len(tool) - 1) : tool[k] = "__"
MalformedMcp(tool) == startswith(tool, MCP_PREFIX) /\ ~WellFormedMcp(tool)

\* C20: an MCP identifier that does not follow the pattern is no error to the
\* grouping: the Assigned list of servers has one entry for each wildcard of
\* `tools` and none for the malformed identifiers, single-tool labels are the
\* identifier itself, and the identifier stays in `tools`.
C20_MalformedIdentifierKept ==
    /\ Len(assignedMcpServers(ui)) =
          Cardinality({i \in 1..Len(ui.editedAgent.tools) :
                          \E name \in Range(assignedMcpServers(ui)) :
                              IsWildcardOf(ui.editedAgent.tools[i], name)})
    /\ \A tool \in Range(ui.editingAgent.tools) :
          MalformedMcp(tool) =>
              /\ includes(ui.editedAgent.tools, tool)
              /\ \A name \in Range(assignedMcpServers(ui)) : ~IsWildcardOf(tool, name)
              /\ Len(tool) <= 3 => displayName(tool) = tool

\* C20 witness: the agent whose file lists malformed identifiers has had a
\* server assigned; the Assigned list shows that server alone and the
\* identifiers are still among the tools.
C20_Witness ==
    /\ ui.editingAgent.filename = "c.md"
    /\ lastOp = Op("addMcpServer", <<"s">>, FALSE)
    /\ assignedMcpServers(ui) = << <<"s">> >>
    /\ includes(ui.editedAgent.tools, <<"mcp", "__", "x">>)
    /\ includes(ui.editedAgent.tools, MCP_PREFIX)

\* The names of the catalog's servers.
CatalogServers == Range(ServerNames(ui.globalResources))

\* What C23 says of a set of server names: the two conversions undo each
\* other, a server just added is assigned and not available, a server just
\* removed is available.
WildcardRoundTrip(names) ==
    /\ \A s \in names : fromMcpWildcard(toMcpWildcard(s)) = <<s>>
    /\ \A s \in names :
          lastOp.name = "addMcpServer" /\ lastOp.item = s =>
              /\ includes(assignedMcpServers(ui), s)
              /\ ~includes(availableMcpServers(ui), s)
    /\ \A s \in names :
          lastOp.name = "removeMcpServer" /\ lastOp.item = s =>
              /\ ~includes(assignedMcpServers(ui), s)
              /\ includes(availableMcpServers(ui), s)

\* C23: for every server name s of the catalog fromMcpWildcard(toMcpWildcard(s))
\* is s; after addMcpServer(s) the server is listed as assigned and no longer
\* as available, after removeMcpServer(s) as available again.
C23_WildcardRoundTrip == WildcardRoundTrip(CatalogServers)

\* The names that the conversions leave as they are: no capitals, no underscores.
PlainServers == {s \in CatalogServers : toLowerCase(s) = s /\ UnderscoreToDash(s) = s}

WildcardRoundTripOfPlainNames == WildcardRoundTrip(PlainServers)

WildcardRoundTripReached ==
    /\ lastOp = Op("removeMcpServer", <<"my", "-", "server">>, TRUE)
    /\ includes(availableMcpServers(ui), <<"my", "-", "server">>)
    /\ ~includes(ui.editedAgent.tools, toMcpWildcard(<<"my", "-", "server">>))

----------------------------------------------------------------------------
(* The catalog of MCP servers and their tools: one query per server        *)

\* Bound: the number of configured servers.
MaxServers == 3

ConfiguredServers == 1..MaxServers

MCPToolInfo(server, name) ==
    [name |-> name, full_name |-> <<"mcp", "__", server, "__", name>>, description |-> NULL]

\* The tools the server answers with when it is reached.
ToolsOfServer(server) == <<MCPToolInfo(server, "a"), MCPToolInfo(server, "b")>>

MCPServerWithTools(name, connected, error, tools) ==
    [name |-> name, connected |-> connected, error |-> error, tools |-> tools]

\* What a query leaves for its server: the tools, or, on a spawn or protocol
\* error or the timeout, the error and no tools.
QueryResult(server, outcome) ==
    IF outcome = "answer" THEN MCPServerWithTools(server, TRUE, NULL, ToolsOfServer(server))
    ELSE MCPServerWithTools(server, FALSE, outcome, <<>>)

\* A failure that is let through and ends the other queries with it.
RecordedOrAborted(results, server, outcome) ==
    IF outcome = "answer" THEN [results EXCEPT ![server] = QueryResult(server, outcome)]
    ELSE [srv \in DOMAIN results |-> QueryResult(srv, outcome)]

Recorded(results, server, outcome) == [results EXCEPT ![server] = QueryResult(server, outcome)]

\* How each configured server behaves when queried.
ServerBehaviours == [ConfiguredServers -> {"answer", "error", "timeout"}]

Pending == [name |-> 0, connected |-> FALSE, error |-> NULL, tools |-> <<>>]

CatalogInit ==
    /\ fs \in ServerBehaviours
    /\ _current_project = NULL
    /\ scan = [pc |-> "querying", results |-> [srv \in ConfiguredServers |-> Pending],
               response |-> NULL]
    /\ ParserIdle
    /\ EditorIdle

QueryEnds(server) ==
    /\ scan.pc = "querying"
    /\ scan.results[server] = Pending
    /\ scan' = [scan EXCEPT !.results = Recorded(@, server, fs[server])]
    /\ UNCHANGED <<fs, _current_project, parserVars, editorVars>>

\* The query of a server answers, fails or runs into its timeout.
QueryAnswers == \E server \in ConfiguredServers : fs[server] = "answer" /\ QueryEnds(server)
QueryFails == \E server \in ConfiguredServers : fs[server] = "error" /\ QueryEnds(server)
QueryTimesOut == \E server \in ConfiguredServers : fs[server] = "timeout" /\ QueryEnds(server)

\* All queries have ended: the servers are returned in the configured order.
CatalogReturn ==
    /\ scan.pc = "querying"
    /\ \A server \in ConfiguredServers : scan.results[server] # Pending
    /\ scan' = [scan EXCEPT !.pc = "done",
                             !.response = [servers |-> [k \in 1..MaxServers |-> scan.results[k]]]]
    /\ UNCHANGED <<fs, _current_project, parserVars, editorVars>>

CatalogNext == QueryAnswers \/ QueryFails \/ QueryTimesOut \/ CatalogReturn

SpecCatalog == CatalogInit /\ [][CatalogNext]_vars

\* C17: in a build of the catalog a server whose query fails or times out is
\* returned as not connected, with the error and no tools, and every other
\* server with all of its tools, in whatever order the queries end.
C17_CatalogIsolation ==
    scan.pc = "done" =>
        /\ Len(scan.response.servers) = MaxServers
        /\ \A k \in ConfiguredServers :
              /\ scan.response.servers[k].name = k
              /\ fs[k] = "answer" =>
                    /\ scan.response.servers[k].connected
                    /\ scan.response.servers[k].tools = ToolsOfServer(k)
              /\ fs[k] # "answer" =>
                    /\ ~scan.response.servers[k].connected
                    /\ scan.response.servers[k].error = fs[k]
                    /\ scan.response.servers[k].tools = <<>>

\* C17 witness: a build has returned in which the first server timed out and
\* the second answered.
C17_Witness ==
    /\ scan.pc = "done"
    /\ fs[1] = "timeout"
    /\ fs[2] = "answer"
    /\ ~scan.response.servers[1].connected
    /\ Len(scan.response.servers[2].tools) = 2

----------------------------------------------------------------------------
(* Properties of the editor                                                *)

\* The identifiers the properties range over: those a drag carries and those
\* the agents hold.
Identifiers == {<<"Bash">>, <<"Read">>, McpTool, <<"tdd">>, <<"custom">>}

NoDuplicates(list) == \A i, j \in 1..Len(list) : list[i] = list[j] => i = j

\* The list with every occurrence of x taken out, the rest in their order.
RECURSIVE Erase(_, _)
Erase(list, x) ==
    IF list = <<>> THEN <<>>
    ELSE IF Head(list) = x THEN Erase(Tail(list), x)
    ELSE <<Head(list)>> \o Erase(Tail(list), x)

\* C1: no identifier is in both tools and disallowedTools: not in the record
\* being edited, after any sequence of assign and unassign operations, and not
\* in an agent of the project.
C1_MutualExclusion ==
    /\ Mounted =>
          Range(ui.editedAgent.tools) \cap Range(ui.editedAgent.disallowedTools) = {}
    /\ \A i \in 1..Len(ui.projectData.agents) :
          Range(ui.projectData.agents[i].tools)
              \cap Range(ui.projectData.agents[i].disallowedTools) = {}

\* C4: while an agent is edited, the Available base tools are the catalog's
\* tools that are not assigned base tools, and the Available skills are the
\* catalog's skills that are not assigned skills: every catalog item is in
\* exactly one of Available and Assigned.
C4_AvailableIsCatalogMinusAssigned ==
    Mounted =>
        /\ Range(availableBaseTools(ui))
              = Range(DEFAULT_CLAUDE_TOOLS) \ Range(agentBaseTools(ui))
        /\ Range(availableSkills(ui))
              = Range(SkillNames(ui.globalResources)) \ Range(ui.editedAgent.skills)
        /\ \A t \in Range(DEFAULT_CLAUDE_TOOLS) :
              includes(availableBaseTools(ui), t) # includes(agentBaseTools(ui), t)
        /\ \A k \in Range(SkillNames(ui.globalResources)) :
              includes(availableSkills(ui), k) # includes(ui.editedAgent.skills, k)

\* C4 witness: Bash was just assigned; it is among the assigned base tools and
\* no longer among the available ones.
C4_Witness ==
    /\ Mounted
    /\ lastOp = Op("addBaseTool", <<"Bash">>, FALSE)
    /\ includes(agentBaseTools(ui), <<"Bash">>)
    /\ ~includes(availableBaseTools(ui), <<"Bash">>)
    /\ ~includes(ui.editingAgent.tools, <<"Bash">>)

C6_UnassignFrame ==
    Mounted =>
        \A x \in Identifiers :
            /\ removeBaseTool(ui, x)
                  = [ui EXCEPT !.editedAgent.tools = Erase(ui.editedAgent.tools, x)]
            /\ removeMcpTool(ui, x)
                  = [ui EXCEPT !.editedAgent.tools = Erase(ui.editedAgent.tools, x)]
            /\ removeSkill(ui, x)
                  = [ui EXCEPT !.editedAgent.skills = Erase(ui.editedAgent.skills, x)]
            /\ ~includes(removeBaseTool(ui, x).editedAgent.tools, x)
            /\ ~includes(removeSkill(ui, x).editedAgent.skills, x)
            /\ ~includes(ui.editedAgent.tools, x) => removeBaseTool(ui, x) = ui
            /\ ~includes(ui.editedAgent.tools, x) => removeMcpTool(ui, x) = ui
            /\ ~includes(ui.editedAgent.skills, x) => removeSkill(ui, x) = ui

\* C6 witness: Read was just removed from Read, mcp__s__a; the MCP tool, the
\* skills and the disallowed tools are as they were.
C6_Witness ==
    /\ Mounted
    /\ lastOp = Op("removeBaseTool", <<"Read">>, TRUE)
    /\ ui.editingAgent.tools = << <<"Read">>, McpTool >>
    /\ ui.editedAgent.tools = <<McpTool>>
    /\ ui.editedAgent.skills = ui.editingAgent.skills
    /\ ui.editedAgent.disallowedTools = ui.editingAgent.disallowedTools

\* C7: a PUT leaves only with a click on Save, and the project's agents change
\* only with the OK response to one: no edit event, tab click or close writes,
\* and none changes an agent of the list.
C7_PersistedOnlyOnSave ==
    [][/\ (putCount' # putCount \/ requests' \ requests # {}) => ClickSave
       /\ ui'.projectData # ui.projectData => SaveResponseOk]_vars

\* C7 witness: a session with edits was closed with Cancel; no PUT was ever
\* sent and the agents are those of the scan.
C7_Witness ==
    /\ lastOp = Op("onClose", <<>>, TRUE)
    /\ ~Mounted
    /\ events >= 2
    /\ putCount = 0
    /\ requests = {}
    /\ ui.projectData.agents = ProjectAgents

\* A step in which a PUT is answered.
SaveAnswered == requests' # requests /\ requests' \subseteq requests

\* C25: onSave and then onClose are called only with the OK response to the
\* PUT; when the request fails or is answered not OK neither is called, the
\* editor stays as it is, open with its edits, and the agents of the project
\* stay as they are.
C25_SaveClosesOnlyOnOk ==
    [][/\ ui'.projectData # ui.projectData => SaveAnswered /\ lastOp'.name = "onSave"
       /\ (Mounted /\ ~Mounted') => \/ SaveAnswered /\ lastOp'.name = "onSave"
                                    \/ ~SaveAnswered /\ lastOp'.name = "onClose"
       /\ (SaveAnswered /\ lastOp'.name = "alert") => ui' = ui]_vars

\* C25 witness: the PUT of an edited agent has failed; the editor is open
\* with the edits and the agents are those of the scan.
C25_Witness ==
    /\ lastOp = Op("alert", <<>>, FALSE)
    /\ Mounted
    /\ ui.editedAgent # ui.editingAgent
    /\ requests = {}
    /\ putCount = 1
    /\ ui.projectData.agents = ProjectAgents

\* The type of payload that belongs to a tab.
TabType(tab) == IF tab = "tools" THEN "tool" ELSE IF tab = "skills" THEN "skill" ELSE tab

\* C30: a drop on the Assigned zone changes the edited agent only when the
\* payload has source 'available' and the type of the active tab, a drop on
\* the Available zone only when it has source 'assigned' and that type; any
\* other drop, a malformed payload included, leaves the edited agent, and
\* the rest of the state, as it is.
C30_DropFrame ==
    Mounted =>
        \A data \in DragData :
            /\ handleAssignedDrop(ui, data) # ui =>
                  /\ data.valid /\ data.source = "available"
                  /\ data.type = TabType(ui.activeTab)
            /\ handleAvailableDrop(ui, data) # ui =>
                  /\ data.valid /\ data.source = "assigned"
                  /\ data.type = TabType(ui.activeTab)
            /\ handleAssignedDrop(ui, data) = [ui EXCEPT !.editedAgent = handleAssignedDrop(ui, data).editedAgent]
            /\ handleAvailableDrop(ui, data) = [ui EXCEPT !.editedAgent = handleAvailableDrop(ui, data).editedAgent]

\* C30 witness: a skill was dropped while the tools tab was open, or from
\* the wrong list; no function was called and the agent is as it was opened.
C30_Witness ==
    /\ Mounted
    /\ events = 1
    /\ lastOp = Op("none", <<"tdd">>, FALSE)
    /\ ui.editedAgent = ui.editingAgent

\* C8: the edited record keeps the filename the session was opened with, a
\* PUT targets that filename, and the OK response to a save replaces, in the
\* agents as they are, exactly the agent of that filename with the record
\* saved and leaves every other agent as it is.
C8_SaveReplacesOneAgent ==
    [][/\ Mounted' => ui'.editedAgent.filename = ui'.editingAgent.filename
       /\ \A r \in requests' \ requests : r.filename = ui.editingAgent.filename
       /\ \A r \in requests :
             SaveOk(r) =>
                /\ Len(ui'.projectData.agents) = Len(ui.projectData.agents)
                /\ \A i \in 1..Len(ui.projectData.agents) :
                      ui'.projectData.agents[i] =
                          IF ui.projectData.agents[i].filename = r.filename
                          THEN r.editedAgent
                          ELSE ui.projectData.agents[i]]_vars

----------------------------------------------------------------------------
(* App: the project picker, the scans in flight and the agents view        *)

\* Bound: the projects selected in a run.
MaxScans == 3

ScanPaths == {"projA", "projB"}

\* The body of an OK answer to the scan of a path.
ScanData(path) == [path |-> path, agents |-> <<>>, mcp_servers |-> <<>>, agent_count |-> 0]

\* An Error object, by its message.
Error(message) == [t |-> "error", message |-> message]

setViewState(u, viewState) == [u EXCEPT !.viewState = viewState]
setCurrentProjectPath(u, path) == [u EXCEPT !.currentProjectPath = path]
setLoading(u, loading) == [u EXCEPT !.loading = loading]
setError(u, error) == [u EXCEPT !.error = error]

\* handleSelectProject up to the await: four setters, then the POST leaves.
handleSelectProjectCall(u, path) ==
    setViewState(setError(setLoading(setCurrentProjectPath(u, path), TRUE), NULL), "agents")

\* handleSelectProject after the await, response.ok: setProjectData, finally.
handleSelectProjectOk(u, data) == setLoading(setProjectData(u, data), FALSE)

\* handleSelectProject after the await, the throw or the rejection: catch, finally.
handleSelectProjectCaught(u, error) ==
    setLoading(setViewState(setError(u, error), "projects"), FALSE)

handleBackToProjects(u) ==
    setError(setCurrentProjectPath(setProjectData(setViewState(u, "projects"), NULL), ""), NULL)

\* The POST of one call, with the projectData of the moment of the call and
\* whether no earlier POST was unanswered then.
ScanRequest(id, path, u, inflight) ==
    [id |-> id, path |-> path, before |-> u.projectData, alone |-> inflight = {}]

AppInit ==
    /\ ui = [viewState |-> "projects", currentProjectPath |-> "", loading |-> FALSE,
             error |-> NULL, projectData |-> NULL]
    /\ requests = {}
    /\ putCount = 0
    /\ events = 0
    /\ lastOp = Op("none", 0, FALSE)
    /\ ParserIdle
    /\ ScanIdle

\* A click on a project of the picker, which is rendered in the projects view.
SelectProject ==
    /\ ui.viewState = "projects"
    /\ events < MaxScans
    /\ \E path \in ScanPaths :
          /\ ui' = handleSelectProjectCall(ui, path)
          /\ requests' = requests \cup {ScanRequest(putCount + 1, path, ui, requests)}
    /\ putCount' = putCount + 1
    /\ events' = events + 1
    /\ lastOp' = Op("handleSelectProject", putCount + 1, FALSE)
    /\ UNCHANGED <<parserVars, scanVars>>

\* A click on the back arrow of the header, which the agents view renders.
BackToProjects ==
    /\ ui.viewState = "agents"
    /\ ui' = handleBackToProjects(ui)
    /\ lastOp' = Op("handleBackToProjects", 0, ui.loading)
    /\ UNCHANGED <<requests, putCount, events, parserVars, scanVars>>

ScanOk(r) ==
    /\ r \in requests
    /\ ui' = handleSelectProjectOk(ui, ScanData(r.path))
    /\ requests' = requests \ {r}
    /\ lastOp' = Op("ok", r.id, Cardinality(requests) > 1)
    /\ UNCHANGED <<putCount, events, parserVars, scanVars>>

ScanNotOk(r) ==
    /\ r \in requests
    /\ ui' = handleSelectProjectCaught(ui, Error("Scan failed: Not Found"))
    /\ requests' = requests \ {r}
    /\ lastOp' = Op("not ok", r.id, Cardinality(requests) > 1)
    /\ UNCHANGED <<putCount, events, parserVars, scanVars>>

ScanRejected(r) ==
    /\ r \in requests
    /\ ui' = handleSelectProjectCaught(ui, Error("Failed to fetch"))
    /\ requests' = requests \ {r}
    /\ lastOp' = Op("rejected", r.id, Cardinality(requests) > 1)
    /\ UNCHANGED <<putCount, events, parserVars, scanVars>>

ScanResponseOk == \E r \in requests : ScanOk(r)
ScanResponseNotOk == \E r \in requests : ScanNotOk(r)
ScanFetchRejected == \E r \in requests : ScanRejected(r)

AppNext ==
    \/ SelectProject \/ BackToProjects
    \/ ScanResponseOk \/ ScanResponseNotOk \/ ScanFetchRejected

SpecApp == AppInit /\ [][AppNext]_vars

\* The request of a call settles: it resolves or it rejects.
ScanSettles(id) ==
    \E r \in requests : r.id = id /\ (ScanOk(r) \/ ScanNotOk(r) \/ ScanRejected(r))

\* Every request settles in the end.
SpecAppFair == SpecApp /\ \A id \in 1..MaxScans : WF_vars(ScanSettles(id))

\* C22: when the agents view shows project data, it is the scan result of
\* the project selected: the late answer to the scan of a project left
\* behind does not take the place of the current project's data.
C22_ShownDataIsOfCurrentProject ==
    (ui.viewState = "agents" /\ ui.projectData # NULL /\ ~ui.loading) =>
        ui.projectData.path = ui.currentProjectPath

\* What holds of the view when no second scan was started before the first
\* was answered.
ShownDataOfLoneScan ==
    (/\ ui.viewState = "agents" /\ ui.projectData # NULL /\ ~ui.loading
     /\ lastOp = Op("ok", putCount, FALSE)) =>
        ui.projectData.path = ui.currentProjectPath

ShownDataOfLoneScanReached ==
    /\ ui.viewState = "agents" /\ ~ui.loading
    /\ lastOp = Op("ok", 2, FALSE)
    /\ ui.projectData = ScanData("projB")
    /\ ui.currentProjectPath = "projB"

\* What C26 says of the step in which request r is answered.
ScanHandled(r) ==
    IF lastOp'.name = "ok"
    THEN /\ ui'.projectData = ScanData(r.path)
         /\ ui'.viewState = "agents"
         /\ ui'.error = NULL
    ELSE /\ ui'.error \in {Error("Scan failed: Not Found"), Error("Failed to fetch")}
         /\ ui'.viewState = "projects"
         /\ ui'.projectData = r.before

\* C26: a scan that fails (answer not OK, or the fetch rejected) leaves the
\* error message, the projects view, and projectData as it was before the
\* scan; a scan that succeeds leaves the response in projectData, the agents
\* view and no error.
C26_ScanOutcome ==
    [][\A r \in requests : requests' = requests \ {r} => ScanHandled(r)]_vars

\* No click and no other answer came between the call of request r and its
\* answer, which is now due.
LoneScan(r) ==
    /\ r.alone /\ requests = {r}
    /\ r.id = putCount
    /\ ui.viewState = "agents"

ScanOutcomeOfLoneScan ==
    [][\A r \in requests : (LoneScan(r) /\ requests' = requests \ {r}) => ScanHandled(r)]_vars

ScanOutcomeOfLoneScanReached ==
    /\ lastOp = Op("not ok", 2, FALSE)
    /\ ui.viewState = "projects"
    /\ ui.error = Error("Scan failed: Not Found")
    /\ ui.projectData = NULL
    /\ requests = {}

\* The request of call id is unanswered.
InFlight(id) == \E r \in requests : r.id = id

\* Every scan ends with loading = false.
ScanEndsNotLoading ==
    \A id \in 1..MaxScans : InFlight(id) ~> (~InFlight(id) /\ ~ui.loading)

\* loading is true while a scan of the current project is unanswered.
LoadingWhileInFlight ==
    \A r \in requests : r.path = ui.currentProjectPath => ui.loading

\* C27: every scan that handleSelectProject starts ends with loading = false,
\* given that its request resolves or rejects in the end; and loading is
\* true in every state in which a scan of the current project is unanswered.
C27_LoadingTracksScan == ScanEndsNotLoading /\ []LoadingWhileInFlight

\* What holds of loading while the only unanswered request is the one of the
\* last call and no earlier one was unanswered at that call.
LoadingWhileLoneScanInFlight ==
    \A r \in requests : (r.alone /\ requests = {r} /\ r.id = putCount) => ui.loading

LoadingWhileLoneScanReached ==
    /\ ui.loading /\ ui.viewState = "projects"
    /\ putCount = 1
    /\ \E r \in requests : r.alone

----------------------------------------------------------------------------
(* ProjectPicker: the list of projects and its copy in localStorage        *)

\* Bound: the additions, removals and selections of a run; the clock of
\* `new Date()` counts them.
MaxPicks == 3

\* What may be typed into the path field.
PA == <<"/", "a">>
PB == <<"/", "w", "/", "b">>
TypedPaths == {<<>>, <<SP>>, PA, <<SP>> \o PA \o <<SP>>, PB, <<"/">>}

Project(path, name, lastOpened) == [path |-> path, name |-> name, lastOpened |-> lastOpened]

\* What is under STORAGE_KEY: nothing (getItem gives null), a text that is no
\* JSON, or the text JSON.stringify made of a list.
NotJson == [t |-> "text"]
stringify(value) == [t |-> "json", value |-> value]

\* loadProjects: the list to set, the list of useState when nothing is set.
loadProjects(stored) == IF stored.t = "json" THEN stored.value ELSE <<>>

\* saveProjects with setProjects ahead of setItem.
saveProjectsSetsFirst(u, storage, updatedProjects, throws) ==
    [ui |-> [u EXCEPT !.projects = updatedProjects],
     storage |-> IF throws THEN storage ELSE stringify(updatedProjects)]

\* What a run of saveProjects leaves in storage and in the state, given
\* whether setItem throws.
saveProjects(u, storage, updatedProjects, throws) ==
    IF throws THEN [ui |-> u, storage |-> storage]
    ELSE [ui |-> [u EXCEPT !.projects = updatedProjects], storage |-> stringify(updatedProjects)]

\* pathSegments[pathSegments.length - 1] || 'Unknown'
ProjectName(path) ==
    IF split(path, "/")[Len(split(path, "/"))] = <<>> THEN <<"Unknown">>
    ELSE split(path, "/")[Len(split(path, "/"))]

addProject(u, storage, now, throws) ==
    IF strip(u.newProjectPath) = <<>> THEN [ui |-> u, storage |-> storage]
    ELSE [ui |-> [saveProjects(u, storage,
                               Append(u.projects, Project(strip(u.newProjectPath),
                                                          ProjectName(strip(u.newProjectPath)), now)),
                               throws).ui
                    EXCEPT !.newProjectPath = <<>>, !.showAddForm = FALSE],
          storage |-> saveProjects(u, storage,
                                   Append(u.projects, Project(strip(u.newProjectPath),
                                                              ProjectName(strip(u.newProjectPath)), now)),
                                   throws).storage]

removeProject(u, storage, path, throws) ==
    saveProjects(u, storage, SelectSeq(u.projects, LAMBDA prj : prj.path # path), throws)

\* selectProject: the save, then onSelectProject, with which App takes the
\* picker off the screen.
selectProject(u, storage, project, now, throws) ==
    [ui |-> [saveProjects(u, storage,
                          [i \in 1..Len(u.projects) |->
                              IF u.projects[i].path = project.path
                              THEN [u.projects[i] EXCEPT !.lastOpened = now]
                              ELSE u.projects[i]],
                          throws).ui
               EXCEPT !.mounted = FALSE],
     storage |-> saveProjects(u, storage,
                              [i \in 1..Len(u.projects) |->
                                  IF u.projects[i].path = project.path
                                  THEN [u.projects[i] EXCEPT !.lastOpened = now]
                                  ELSE u.projects[i]],
                              throws).storage]

\* The picker as it is after useState and the effect that runs loadProjects.
PickerMounted(storage) ==
    [mounted |-> TRUE, projects |-> loadProjects(storage), newProjectPath |-> <<>>,
     showAddForm |-> FALSE]

StoredAtStart == {NULL, NotJson, stringify(<<>>), stringify(<<Project(PA, <<"a">>, 0)>>)}

PickerInit ==
    /\ fs \in [stored : StoredAtStart]
    /\ ui = PickerMounted(fs.stored)
    /\ requests = {}
    /\ putCount = 0
    /\ events = 0
    /\ lastOp = Op("none", <<>>, FALSE)
    /\ _current_project = NULL
    /\ scan = NULL
    /\ ParserIdle

\* The Add Project button, typing into the field, the Cancel button.
PickerShowForm ==
    /\ ui.mounted /\ ~ui.showAddForm
    /\ ui' = [ui EXCEPT !.showAddForm = TRUE]
    /\ UNCHANGED <<fs, lastOp, requests, putCount, events, _current_project, scan, parserVars>>

PickerType ==
    /\ ui.mounted /\ ui.showAddForm
    /\ \E typed \in TypedPaths : ui' = [ui EXCEPT !.newProjectPath = typed]
    /\ UNCHANGED <<fs, lastOp, requests, putCount, events, _current_project, scan, parserVars>>

PickerCancelForm ==
    /\ ui.mounted /\ ui.showAddForm
    /\ ui' = [ui EXCEPT !.showAddForm = FALSE, !.newProjectPath = <<>>]
    /\ UNCHANGED <<fs, lastOp, requests, putCount, events, _current_project, scan, parserVars>>

\* One run of a handler that saves: the state and the storage it leaves.
PickerSaved(result, op) ==
    /\ ui' = result.ui
    /\ fs' = [fs EXCEPT !.stored = result.storage]
    /\ lastOp' = op
    /\ events' = events + 1
    /\ UNCHANGED <<requests, putCount, _current_project, scan, parserVars>>

\* Enter in the field, or the Add button.
PickerAdd ==
    /\ ui.mounted /\ ui.showAddForm
    /\ events < MaxPicks
    /\ \E throws \in BOOLEAN :
          PickerSaved(addProject(ui, fs.stored, events + 1, throws),
                      Op("addProject", strip(ui.newProjectPath), throws))

\* The X of a listed project.
PickerRemove ==
    /\ ui.mounted
    /\ events < MaxPicks
    /\ \E i \in 1..Len(ui.projects), throws \in BOOLEAN :
          PickerSaved(removeProject(ui, fs.stored, ui.projects[i].path, throws),
                      Op("removeProject", ui.projects[i].path, throws))

\* A click on a listed project.
PickerSelect ==
    /\ ui.mounted
    /\ events < MaxPicks
    /\ \E i \in 1..Len(ui.projects), throws \in BOOLEAN :
          PickerSaved(selectProject(ui, fs.stored, ui.projects[i], events + 1, throws),
                      Op("selectProject", ui.projects[i].path, throws))

\* Back from the agents view: App renders a new picker.
PickerMount ==
    /\ ~ui.mounted
    /\ ui' = PickerMounted(fs.stored)
    /\ UNCHANGED <<fs, lastOp, requests, putCount, events, _current_project, scan, parserVars>>

PickerNext ==
    \/ PickerShowForm \/ PickerType \/ PickerCancelForm
    \/ PickerAdd \/ PickerRemove \/ PickerSelect \/ PickerMount

SpecPicker == PickerInit /\ [][PickerNext]_vars

\* C28: after every addProject, removeProject and selectProject the list in
\* memory is the list persisted under the storage key (the list loadProjects
\* reads from it: the empty list when nothing or no JSON is stored), and a
\* storage write that throws leaves the list in memory as it was.
C28_ListIsPersistedList ==
    /\ [](ui.projects = loadProjects(fs.stored))
    /\ [][(events' # events /\ lastOp'.had) =>
              ui'.projects = ui.projects /\ fs' = fs]_vars

\* C28 witness: a project was added and removed again, and then the write
\* of an addition has thrown: the list in memory and the stored list are
\* the empty list written by the removal.
C28_Witness ==
    /\ events = 3
    /\ lastOp = Op("addProject", PB, TRUE)
    /\ ui.projects = <<>>
    /\ fs.stored = stringify(<<>>)

\* C29: the list never holds two entries with the same path: addProject with
\* an empty or blank path does nothing, addProject with a listed path adds no
\* second entry, removeProject(path) removes exactly one project.
C29_NoTwoEntriesWithOnePath ==
    /\ [](\A i, j \in 1..Len(ui.projects) :
             ui.projects[i].path = ui.projects[j].path => i = j)
    /\ [][/\ (events' # events /\ lastOp'.name = "addProject" /\ lastOp'.item = <<>>) =>
                 ui' = ui /\ fs' = fs
          /\ (events' # events /\ lastOp'.name = "removeProject" /\ ~lastOp'.had) =>
                 Len(ui'.projects) = Len(ui.projects) - 1]_vars

\* What holds of addProject and removeProject: a blank path adds nothing, and
\* while the paths of the list differ a removal removes one project.
BlankAndLoneRemoval ==
    [][/\ (events' # events /\ lastOp'.name = "addProject" /\ lastOp'.item = <<>>) =>
             ui' = ui /\ fs' = fs
       /\ (/\ events' # events /\ lastOp'.name = "removeProject" /\ ~lastOp'.had
           /\ \A i, j \in 1..Len(ui.projects) :
                 ui.projects[i].path = ui.projects[j].path => i = j) =>
             Len(ui'.projects) = Len(ui.projects) - 1]_vars

BlankAndLoneRemovalReached ==
    /\ lastOp = Op("removeProject", PA, FALSE)
    /\ events = 2
    /\ ui.projects = <<Project(PB, <<"b">>, 1)>>

====
